---- MODULE Spec2Model ----
(***************************************************************************)
(* A model of the Excel mock interviewer: the question store               *)
(* (QuestionStorageAgent), the question generator (QuestionGeneratorAgent) *)
(* and the interview state machine (InterviewOrchestrator).                *)
(*                                                                         *)
(* Python values are modelled as follows.                                  *)
(*   None / optional key    a sequence of length 0 (absent) or 1 (present) *)
(*   float                  an IEEE-754 double: [m, e] with m the 53-bit   *)
(*                          mantissa (limbs, least significant first) and  *)
(*                          value m * 2^e; zero has the empty mantissa     *)
(*   effectiveness_score    thousandths (0.5 is 500)                       *)
(*   datetime.now()         Now: no timestamp decides what a call does, so *)
(*                          an optional timestamp is <<>> or <<Now>>       *)
(* Left out are the keys no operation reads back: the question's type,     *)
(* keywords and timestamp, success_rate and created_date of a stored       *)
(* question, candidate_info, the timestamps of responses, evaluations and  *)
(* history entries, and the texts of answers and feedback.                 *)
(***************************************************************************)
EXTENDS Integers, Sequences, FiniteSets, TLC

VARIABLES
    questions,          \* QuestionStorageAgent.questions
    used_questions,     \* QuestionGeneratorAgent.used_questions
    current_interview,  \* InterviewOrchestrator.current_interview (<<>> is None)
    interview_history,  \* InterviewOrchestrator.interview_history
    hash_seed,          \* the per-process seed of Python's str hash
    result,             \* what the last call returned (or that it raised)
    calls               \* number of start_interview calls made so far

vars == <<questions, used_questions, current_interview, interview_history,
          hash_seed, result, calls>>

(***************************************************************************)
(* Bounds of the model.                                                    *)
(***************************************************************************)
MaxStarts == 2          \* start_interview calls (Spec)
MaxCount == 2           \* largest question_count asked for (Spec)
MaxAnswers == 2         \* answers submitted to one session (Spec)
SessionStarts == 1      \* start_interview calls (SpecSession)
SessionMaxCount == 1    \* largest question_count asked for (SpecSession)
SessionAnswers == 1     \* answers submitted to the session (SpecSession)
SelectMaxCount == 3     \* largest question_count asked for (SpecSelect)
MaxPerDifficulty == 3   \* questions of one difficulty in a pool (SpecBalance)
MaxTarget == 7          \* largest target_count (SpecBalance)
MaxEvaluations == 4     \* evaluations handed to a report (SpecReport)
HistoryRetention == 1   \* sessions an interview history is to retain
MaxStored == 2          \* records of the store (SpecStoreCalls)
MaxUses == 2            \* recorded uses of one record (SpecStoreCalls)
MaxOutcomes == 8        \* outcomes recorded on one question (SpecStore)

(***************************************************************************)
(* Natural numbers of any size as limb sequences, least significant limb   *)
(* first, each limb below LimbBase = 2^LimbBits.  They carry the 53-bit    *)
(* mantissas of Python floats, which do not fit TLC's 32-bit integers.     *)
(***************************************************************************)
LimbBits == 16
LimbBase == 65536

RECURSIVE Pow2(_)
Pow2(k) == IF k = 0 THEN 1 ELSE 2 * Pow2(k - 1)

RECURSIVE LimbsTrim(_)
LimbsTrim(a) ==
    IF Len(a) = 0 \/ a[Len(a)] # 0 THEN a
    ELSE LimbsTrim(SubSeq(a, 1, Len(a) - 1))

\* Carry propagation: a's entries may exceed the base, c is the carry in.
RECURSIVE LimbsCarry(_, _)
LimbsCarry(a, c) ==
    IF Len(a) = 0
    THEN (IF c = 0 THEN <<>> ELSE <<c % LimbBase>> \o LimbsCarry(<<>>, c \div LimbBase))
    ELSE LET t == a[1] + c
         IN  <<t % LimbBase>> \o LimbsCarry(Tail(a), t \div LimbBase)

LimbsOfNat(n) == LimbsCarry(<<>>, n)

RECURSIVE NatOfLimbs(_)
NatOfLimbs(a) == IF Len(a) = 0 THEN 0 ELSE a[1] + LimbBase * NatOfLimbs(Tail(a))

LimbAt(a, i) == IF i >= 1 /\ i <= Len(a) THEN a[i] ELSE 0

LimbsAdd(a, b) ==
    LET n == IF Len(a) > Len(b) THEN Len(a) ELSE Len(b)
    IN  LimbsCarry([i \in 1..n |-> LimbAt(a, i) + LimbAt(b, i)], 0)

\* a * k, for 0 <= k < 2^14
LimbsMul(a, k) == LimbsTrim(LimbsCarry([i \in 1..Len(a) |-> a[i] * k], 0))

\* a * 2^k
LimbsShl(a, k) ==
    LET p == Pow2(k % LimbBits)
    IN  [i \in 1..(k \div LimbBits) |-> 0]
            \o LimbsCarry([i \in 1..Len(a) |-> a[i] * p], 0)

\* floor(a / 2^k)
LimbsShr(a, k) ==
    LET q == k \div LimbBits
        r == k % LimbBits
        p == Pow2(r)
        up == Pow2(LimbBits - r)
    IN  LimbsTrim([i \in 1..(Len(a) - q) |->
            (a[i + q] \div p) + (LimbAt(a, i + q + 1) % p) * up])

\* a mod 2^k # 0
LimbsLowBits(a, k) ==
    LET q == k \div LimbBits
    IN  \/ \E i \in 1..q : LimbAt(a, i) # 0
        \/ LimbAt(a, q + 1) % Pow2(k % LimbBits) # 0

\* bit k of a (bit 0 is the least significant)
LimbsBit(a, k) == (LimbAt(a, k \div LimbBits + 1) \div Pow2(k % LimbBits)) % 2

\* number of significant bits of a
LimbsBitLen(a) ==
    LET t == LimbsTrim(a)
    IN  IF Len(t) = 0 THEN 0
        ELSE (Len(t) - 1) * LimbBits
             + (CHOOSE k \in 1..LimbBits :
                    Pow2(k - 1) <= t[Len(t)] /\ t[Len(t)] < Pow2(k))

\* a <= b
LimbsLeq(a, b) ==
    LET n == IF Len(a) > Len(b) THEN Len(a) ELSE Len(b)
    IN  \/ \A i \in 1..n : LimbAt(a, i) = LimbAt(b, i)
        \/ \E i \in 1..n : /\ LimbAt(a, i) < LimbAt(b, i)
                            /\ \A j \in (i + 1)..n : LimbAt(a, j) = LimbAt(b, j)

\* a - b, for a >= b: a plus the complement of b plus 1, less LimbBase^Len(a)
LimbsSub(a, b) ==
    LET n == Len(a)
        c == LimbsAdd(LimbsAdd(a, [i \in 1..n |-> LimbBase - 1 - LimbAt(b, i)]), <<1>>)
    IN  LimbsTrim(SubSeq(c, 1, n))

\* a * b, b taken a limb at a time and each limb in two halves of 8 bits
RECURSIVE LimbsMulLimbs(_, _)
LimbsMulLimbs(a, b) ==
    IF Len(b) = 0 THEN <<>>
    ELSE LimbsAdd(LimbsAdd(LimbsMul(a, b[1] % 256),
                           LimbsShl(LimbsMul(a, b[1] \div 256), 8)),
                  <<0>> \o LimbsMulLimbs(a, Tail(b)))

\* The largest multiple of 2^bit whose square is at most a (a below 2^112),
\* four bits at a time: to the root r of the higher bits is added the largest
\* d in 0..15 with (r + d * 2^bit)^2 <= a.  Len(r) has r computed first.
RECURSIVE LimbsSqrt(_, _)
LimbsSqrt(a, bit) ==
    IF bit > 52 THEN <<>>
    ELSE LET r == LimbsSqrt(a, bit + 4)
         IN  IF Len(r) < 0 THEN r
             ELSE LET d == Cardinality({ c \in 1..15 :
                               LimbsLeq(LimbsMulLimbs(LimbsAdd(r, LimbsShl(<<c>>, bit)),
                                                      LimbsAdd(r, LimbsShl(<<c>>, bit))),
                                        a) })
                  IN  LimbsTrim(LimbsAdd(r, LimbsShl(<<d>>, bit)))

\* Long division of the limbs i..1 of a by n (0 < n < 2^15), r the remainder
\* carried in.
RECURSIVE LimbsDiv(_, _, _, _)
LimbsDiv(a, n, i, r) ==
    IF i = 0 THEN [q |-> <<>>, r |-> r]
    ELSE LET t == r * LimbBase + a[i]
             rest == LimbsDiv(a, n, i - 1, t % n)
         IN  [q |-> Append(rest.q, t \div n), r |-> rest.r]

(***************************************************************************)
(* Python float arithmetic (IEEE-754 binary64, round to nearest, ties to   *)
(* even) on the non-negative values update_question_performance computes.  *)
(***************************************************************************)
FloatZero == [m |-> <<>>, e |-> 0]

\* The double nearest to a * 2^e (plus a positive amount below one unit of a
\* when sticky).
FloatRound(a, e, sticky) ==
    LET L == LimbsBitLen(a)
    IN  IF L = 0 THEN FloatZero
        ELSE IF L <= 53 THEN [m |-> LimbsShl(LimbsTrim(a), 53 - L), e |-> e - (53 - L)]
        ELSE LET d == L - 53
                 kept == LimbsShr(a, d)
                 low == sticky \/ LimbsLowBits(a, d - 1)
                 up == LimbsBit(a, d - 1) = 1 /\ (low \/ LimbsBit(kept, 0) = 1)
                 inc == IF up THEN LimbsAdd(kept, <<1>>) ELSE kept
             IN  IF LimbsBitLen(inc) > 53
                 THEN [m |-> LimbsShr(inc, 1), e |-> e + d + 1]
                 ELSE [m |-> inc, e |-> e + d]

FloatOfInt(n) == FloatRound(LimbsOfNat(n), 0, FALSE)

\* float * int
FloatMulInt(f, k) ==
    IF Len(f.m) = 0 \/ k = 0 THEN FloatZero
    ELSE FloatRound(LimbsMul(f.m, k), f.e, FALSE)

\* float + int
FloatAddInt(f, s) ==
    IF Len(f.m) = 0 THEN FloatOfInt(s)
    ELSE IF f.e <= 0
    THEN FloatRound(LimbsAdd(f.m, LimbsShl(LimbsOfNat(s), 0 - f.e)), f.e, FALSE)
    ELSE FloatRound(LimbsAdd(LimbsShl(f.m, f.e), LimbsOfNat(s)), 0, FALSE)

\* float / int, n > 0: the quotient is computed to more than 54 bits and the
\* remainder decides the rounding.
FloatDivInt(f, n) ==
    IF Len(f.m) = 0 THEN FloatZero
    ELSE LET g == LimbsBitLen(LimbsOfNat(n)) + 2
             a == LimbsShl(f.m, g)
             d == LimbsDiv(a, n, Len(a), 0)
         IN  FloatRound(d.q, f.e - g, d.r # 0)

\* f + g
FloatAdd(f, g) ==
    IF Len(f.m) = 0 THEN g
    ELSE IF Len(g.m) = 0 THEN f
    ELSE LET e == IF f.e < g.e THEN f.e ELSE g.e
         IN  FloatRound(LimbsAdd(LimbsShl(f.m, f.e - e), LimbsShl(g.m, g.e - e)), e, FALSE)

\* sum(fs) of floats: the start value 0 plus the elements from the left
RECURSIVE FloatSum(_)
FloatSum(fs) ==
    IF Len(fs) = 0 THEN FloatZero
    ELSE FloatAdd(FloatSum(SubSeq(fs, 1, Len(fs) - 1)), fs[Len(fs)])

\* abs(f - g)
FloatAbsDiff(f, g) ==
    IF Len(f.m) = 0 THEN g
    ELSE IF Len(g.m) = 0 THEN f
    ELSE LET e == IF f.e < g.e THEN f.e ELSE g.e
             a == LimbsShl(f.m, f.e - e)
             b == LimbsShl(g.m, g.e - e)
         IN  IF LimbsLeq(b, a) THEN FloatRound(LimbsSub(a, b), e, FALSE)
             ELSE FloatRound(LimbsSub(b, a), e, FALSE)

\* f * g
FloatMul(f, g) ==
    IF Len(f.m) = 0 \/ Len(g.m) = 0 THEN FloatZero
    ELSE FloatRound(LimbsMulLimbs(f.m, g.m), f.e + g.e, FALSE)

\* A power that leaves f as it is.
FloatSqrtNone(f) == f

\* f ** 0.5: the root of the mantissa shifted to 109 or 110 bits, an even
\* exponent left, is computed to 55 bits and whether it is exact decides the
\* rounding.
FloatSqrt(f) ==
    IF Len(f.m) = 0 THEN FloatZero
    ELSE LET k == 56 + (f.e % 2)
             a == LimbsShl(f.m, k)
             r == LimbsSqrt(a, 0)
         IN  FloatRound(r, (f.e - k) \div 2, ~LimbsLeq(a, LimbsMulLimbs(r, r)))

\* int(f) of a non-negative float
FloatFloor(f) ==
    IF Len(f.m) = 0 THEN 0
    ELSE IF f.e >= 0 THEN NatOfLimbs(LimbsShl(f.m, f.e))
    ELSE NatOfLimbs(LimbsShr(f.m, 0 - f.e))

\* round(f, 1) in tenths: 10 * f, exactly, rounded to the nearest integer,
\* a tie to the even one (round() rounds the exact value of the double).
RoundTenths(f) ==
    LET a == LimbsMul(f.m, 10)
        d == 0 - f.e
        q == NatOfLimbs(LimbsShr(a, d))
        up == LimbsBit(a, d - 1) = 1 /\ (LimbsLowBits(a, d - 1) \/ q % 2 = 1)
    IN  IF Len(f.m) = 0 THEN 0
        ELSE IF f.e >= 0 THEN NatOfLimbs(LimbsShl(a, f.e))
        ELSE IF up THEN q + 1 ELSE q

\* f <= k for a float f and an int k >= 0
FloatLeqInt(f, k) == FloatFloor(f) < k \/ f = FloatOfInt(k)

(***************************************************************************)
(* QuestionStorageAgent                                                    *)
(***************************************************************************)
\* _calculate_effectiveness: a monotone function of avg_score and the sample
\* count that starts from the neutral prior 0.5 and trusts the average more
\* as the history grows (in thousandths).
CalculateEffectiveness(q) ==
    LET n == IF q.usage_count < 5 THEN q.usage_count ELSE 5
    IN  500 + ((FloatFloor(q.avg_score) - 50) * n)

\* An entry that keeps the counters the question carries.
StoreEntryAsPassed(question) == [question EXCEPT !.tracked = TRUE]

\* store_question(question): the entry appended to self.questions
StoreEntry(question) ==
    [question EXCEPT !.tracked = TRUE,
                     !.usage_count = 0,
                     !.avg_score = FloatZero,
                     !.effectiveness_score = 500,
                     !.performance_history = <<>>]

store_question(qs, question) == Append(qs, StoreEntry(question))

\* The update without the history entry of lines 146-150.
UpdatedRecordNoHistory(q, score) ==
    LET count == q.usage_count + 1
        avg == FloatDivInt(FloatAddInt(FloatMulInt(q.avg_score, count - 1), score), count)
        q1 == [q EXCEPT !.usage_count = count, !.avg_score = avg]
    IN  [q1 EXCEPT !.effectiveness_score = CalculateEffectiveness(q1)]

\* Lines 140-153 of update_question_performance on the matching record, for
\* a score that is a number.
UpdatedRecord(q, score) ==
    LET count == q.usage_count + 1
        avg == FloatDivInt(FloatAddInt(FloatMulInt(q.avg_score, count - 1), score), count)
        q1 == [q EXCEPT !.usage_count = count,
                        !.avg_score = avg,
                        !.performance_history = Append(@, [score |-> score])]
    IN  [q1 EXCEPT !.effectiveness_score = CalculateEffectiveness(q1)]

\* An index that falls on the first record when no record has this id.
FirstIndexOrFirst(qs, question_id) ==
    IF \E i \in 1..Len(qs) : qs[i].id = question_id
    THEN CHOOSE i \in 1..Len(qs) :
            /\ qs[i].id = question_id
            /\ \A j \in 1..(i - 1) : qs[j].id # question_id
    ELSE IF Len(qs) > 0 THEN 1 ELSE 0

\* Index of the first stored question with this id, 0 when there is none.
FirstIndexOf(qs, question_id) ==
    IF \E i \in 1..Len(qs) : qs[i].id = question_id
    THEN CHOOSE i \in 1..Len(qs) :
            /\ qs[i].id = question_id
            /\ \A j \in 1..(i - 1) : qs[j].id # question_id
    ELSE 0

\* A score as the evaluator hands it over: a number, or a JSON value of the
\* AI's reply that is no number (a string, null).
NumberScore(v) == [numeric |-> TRUE, value |-> v]
NonNumberScore == [numeric |-> FALSE, value |-> 0]

\* update_question_performance(question_id, score): the store it leaves and
\* whether it raised.  With a score that is no number the addition of line 143
\* raises TypeError after line 140 has counted the use.
update_question_performance(qs, question_id, score) ==
    LET i == FirstIndexOf(qs, question_id)
    IN  IF i = 0 THEN [questions |-> qs, raised |-> FALSE]
        ELSE IF score.numeric
        THEN [questions |-> [qs EXCEPT ![i] = UpdatedRecord(qs[i], score.value)],
              raised |-> FALSE]
        ELSE [questions |-> [qs EXCEPT ![i].usage_count = @ + 1], raised |-> TRUE]

\* "if x:" on a str, an int or None
PyNone == [t |-> "none", s |-> "", n |-> 0]
PyStr(x) == [t |-> "str", s |-> x, n |-> 0]
PyInt(x) == [t |-> "int", s |-> "", n |-> x]
Truthy(v) == (v.t = "str" /\ v.s # "") \/ (v.t = "int" /\ v.n # 0)

\* q.get(key) == v, for a key that holds a str
StrFieldEq(field, v) == v.t = "str" /\ v.s = field

\* A slice that keeps the whole sequence.
TakeAll(seq, n) == seq

\* seq[:n]
Take(seq, n) == SubSeq(seq, 1, IF n < Len(seq) THEN n ELSE Len(seq))

\* x.get('effectiveness_score', 0)
EffectivenessKey(q) == IF q.tracked THEN q.effectiveness_score ELSE 0

\* sorted(seq, key=effectiveness, reverse=True): stable, so questions of equal
\* effectiveness keep their order in seq.
RECURSIVE InsertByEffectiveness(_, _)
InsertByEffectiveness(sorted, q) ==
    IF Len(sorted) = 0 THEN <<q>>
    ELSE IF EffectivenessKey(sorted[Len(sorted)]) >= EffectivenessKey(q)
    THEN Append(sorted, q)
    ELSE Append(InsertByEffectiveness(SubSeq(sorted, 1, Len(sorted) - 1), q),
                sorted[Len(sorted)])

RECURSIVE SortByEffectiveness(_)
SortByEffectiveness(seq) ==
    IF Len(seq) = 0 THEN <<>>
    ELSE InsertByEffectiveness(SortByEffectiveness(SubSeq(seq, 1, Len(seq) - 1)),
                               seq[Len(seq)])

\* get_best_questions(category=None, difficulty=None, count=5)
DefaultBestCount == 5

get_best_questions(qs, category, difficulty, count) ==
    LET MatchCategory(q) == ~Truthy(category) \/ StrFieldEq(q.category, category)
        MatchDifficulty(q) == ~Truthy(difficulty) \/ StrFieldEq(q.difficulty, difficulty)
        filtered == SelectSeq(SelectSeq(qs, MatchCategory), MatchDifficulty)
    IN  Take(SortByEffectiveness(filtered), count)

(***************************************************************************)
(* QuestionBankAgent                                                       *)
(***************************************************************************)
Difficulties == <<"basic", "intermediate", "advanced">>

\* role_focus.get(role, ["basic_formulas"])
RoleFocus(role) ==
    CASE role = "finance" -> {"basic_formulas", "lookup_functions", "scenario_based"}
      [] role = "operations" -> {"data_analysis", "data_manipulation", "scenario_based"}
      [] role = "data_analytics" -> {"advanced_formulas", "data_analysis", "lookup_functions"}
      [] OTHER -> {"basic_formulas"}

\* base_questions: each template with the number of values of each slot
BaseQuestions ==
    << [category |-> "basic_formulas", difficulty |-> "basic", slots |-> <<3>>],
       [category |-> "data_analysis", difficulty |-> "intermediate", slots |-> <<3>>],
       [category |-> "advanced_formulas", difficulty |-> "advanced", slots |-> <<3, 3>>] >>

\* _fill_template: the texts a template can be filled to, one value chosen for
\* each slot; a text is the template's index and the indices of the values.
FilledTexts(i) ==
    LET slots == BaseQuestions[i].slots
    IN  { [template |-> i, values |-> v] :
            v \in { f \in [1..Len(slots) -> 1..3] : \A k \in 1..Len(slots) : f[k] <= slots[k] } }

(***************************************************************************)
(* QuestionGeneratorAgent                                                  *)
(***************************************************************************)
IdSpace == 10000

\* hash(question_text): a function of the text fixed for the process by its
\* hash seed.  Seed 0 stands for the seeds under which the texts have distinct
\* hashes modulo IdSpace, seed 1 for those under which texts collide.
StrHash(text, seed) ==
    LET code == text.values[1] * 10 + (IF Len(text.values) > 1 THEN text.values[2] ELSE 0)
    IN  IF seed = 0 THEN text.template * (3 * IdSpace + 100) + code
        ELSE text.template * 7 * IdSpace + text.values[1]

Question(id, text, category, difficulty, generated) ==
    [id |-> id, text |-> text, category |-> category, difficulty |-> difficulty,
     generated |-> generated, tracked |-> FALSE, usage_count |-> 0,
     avg_score |-> FloatZero, effectiveness_score |-> 0,
     performance_history |-> <<>>]

\* _use_template_question: every question it can return, <<>> for None
UseTemplateQuestion(categories, difficulty, seed) ==
    LET suitable == { i \in 1..Len(BaseQuestions) :
                        /\ BaseQuestions[i].category \in categories
                        /\ BaseQuestions[i].difficulty = difficulty }
    IN  IF suitable = {} THEN { <<>> }
        ELSE { << Question(StrHash(text, seed) % IdSpace, text,
                           BaseQuestions[text.template].category, difficulty, TRUE) >> :
                 text \in UNION { FilledTexts(i) : i \in suitable } }

\* The curated questions _get_curated_question draws from.
CuratedQuestions ==
    { Question(1, [template |-> 0, values |-> <<1>>], "lookup_functions", "intermediate", FALSE),
      Question(2, [template |-> 0, values |-> <<2>>], "scenario_based", "advanced", FALSE) }

\* _get_curated_question: a curated question of the categories and the
\* difficulty, <<>> (None) when there is none
GetCuratedQuestion(categories, difficulty) ==
    LET suitable == { q \in CuratedQuestions :
                        q.category \in categories /\ q.difficulty = difficulty }
    IN  IF suitable = {} THEN { <<>> } ELSE { <<q>> : q \in suitable }

\* _generate_single_question: random.choice([True, False]) picks the source
GenerateSingleQuestion(categories, difficulty, seed) ==
    UseTemplateQuestion(categories, difficulty, seed)
        \cup GetCuratedQuestion(categories, difficulty)

\* A pass of the loop that keeps a question whose id is used already.
KeepGeneratedAny(st, question) ==
    IF Len(question) = 1
    THEN [questions |-> Append(st.questions, question[1]),
          used |-> st.used \cup {question[1].id}]
    ELSE st

\* One pass of the inner loop of generate_interview_questions on the state
\* [questions, used]: the question is kept unless it is None or its id is used.
KeepGenerated(st, question) ==
    IF Len(question) = 1 /\ question[1].id \notin st.used
    THEN [questions |-> Append(st.questions, question[1]),
          used |-> st.used \cup {question[1].id}]
    ELSE st

RECURSIVE GenerateLoop(_, _, _, _, _)
GenerateLoop(states, categories, difficulty, num_questions, seed) ==
    IF num_questions = 0 THEN states
    ELSE GenerateLoop(
            { KeepGenerated(st, question) :
                st \in states,
                question \in GenerateSingleQuestion(categories, difficulty, seed) },
            categories, difficulty, num_questions - 1, seed)

\* return questions[:count]
GeneratedResult(st, count) == [questions |-> Take(st.questions, count), used |-> st.used]

\* generate_interview_questions(role, count): every [questions, used] the
\* call can end with, over the random choices it makes
generate_interview_questions(role, count, used, seed) ==
    LET categories == RoleFocus(role)
        s0 == { [questions |-> <<>>, used |-> used] }
        s1 == GenerateLoop(s0, categories, "basic", count \div 3 + 1, seed)
        s2 == GenerateLoop(s1, categories, "intermediate", count \div 3 + 1, seed)
        s3 == GenerateLoop(s2, categories, "advanced", count \div 3, seed)
    IN  { GeneratedResult(st, count) : st \in s3 }


(***************************************************************************)
(* AIAnswerReviewer: the evaluation of one answer.                         *)
(***************************************************************************)
\* The object generate_content returns, which review_answer binds to the
\* name response in place of the candidate's answer.
ResponseObject == [kind |-> "object"]

\* _fallback_evaluation(question, response, error): the evaluation, or that
\* the call raised.  A response that is no str has no split(): AttributeError.
fallback_evaluation(response) ==
    IF response.kind # "str" THEN [raised |-> TRUE, evaluation |-> <<>>]
    ELSE LET words == IF response.words > 30 THEN 25
                      ELSE IF response.words > 15 THEN 15
                      ELSE IF response.words > 5 THEN 10
                      ELSE 0
             score == 40 + words
                         + (IF response.mentions_function THEN 20 ELSE 0)
                         + (IF response.has_formula THEN 15 ELSE 0)
             Min(a, b) == IF a < b THEN a ELSE b
             Max(a, b) == IF a > b THEN a ELSE b
         IN  [raised |-> FALSE,
              evaluation |->
                << [score |-> NumberScore(Min(score, 100)),
                    technical_accuracy |-> NumberScore(Min(score, 100)),
                    depth |-> NumberScore(Max(score - 10, 0)),
                    practical_application |-> NumberScore(Max(score - 5, 0)),
                    strengths |-> IF response.mentions_function
                                  THEN <<"Response provided", "Mentioned">>
                                  ELSE <<"Response provided">>,
                    improvements |-> <<"Could provide more detail",
                                       "Add specific Excel function examples">>,
                    evaluation_source |-> "Enhanced_Fallback"] >>]

\* The score _parse_text_response extracts: the first number of the first
\* line that mentions a score and holds a number, capped at 100; 70 when no
\* line does.  A line is [mentions_score, numbers], numbers what
\* re.findall(r'\d+', line) finds in it.
RECURSIVE ScoreOfLines(_)
ScoreOfLines(lines) ==
    IF Len(lines) = 0 THEN 70
    ELSE IF lines[1].mentions_score /\ Len(lines[1].numbers) > 0
    THEN IF lines[1].numbers[1] < 100 THEN lines[1].numbers[1] ELSE 100
    ELSE ScoreOfLines(Tail(lines))

\* _parse_text_response(response)
parse_text_response(lines) ==
    LET score == ScoreOfLines(lines)
    IN  [score |-> NumberScore(score),
         technical_accuracy |-> NumberScore(score),
         depth |-> NumberScore(score - 10),
         practical_application |-> NumberScore(score - 5),
         strengths |-> <<"AI provided detailed feedback">>,
         improvements |-> <<"See detailed feedback below">>,
         evaluation_source |-> "AI_Text"]

\* _parse_ai_evaluation(ai_response).  A reply text is [lines, object]:
\* object holds the JSON object between its first "{" and last "}" when
\* there is one that json.loads accepts, a record of the keys it has.
parse_ai_evaluation(text) ==
    IF Len(text.object) = 0 THEN parse_text_response(text.lines)
    ELSE LET evaluation_data == text.object[1]
             Get(key, default) == IF key \in DOMAIN evaluation_data
                                  THEN evaluation_data[key] ELSE default
         IN  [score |-> Get("score", NumberScore(50)),
              technical_accuracy |-> Get("technical_accuracy", NumberScore(50)),
              depth |-> Get("depth", NumberScore(50)),
              practical_application |-> Get("practical_application", NumberScore(50)),
              strengths |-> Get("strengths", <<>>),
              improvements |-> Get("improvements", <<>>),
              evaluation_source |-> "AI"]

\* review_answer(question, response), reply what the AI call does: the call
\* raises, or returns an object whose text raises when read (text <<>>), or
\* whose text is reply.text[1].
review_answer(response, reply) ==
    IF reply.call = "raises" THEN fallback_evaluation(response)
    ELSE IF Len(reply.text) = 0 THEN fallback_evaluation(ResponseObject)
    ELSE [raised |-> FALSE, evaluation |-> <<parse_ai_evaluation(reply.text[1])>>]

(***************************************************************************)
(* InterviewReportGenerator: the hiring report of a list of evaluations.   *)
(***************************************************************************)
\* f >= k for a float f and an int k >= 0
FloatGeqInt(f, k) == FloatFloor(f) >= k

\* sum(eval_data['score'] for eval_data in evaluations), the scores ints
RECURSIVE ScoreSum(_)
ScoreSum(evaluations) ==
    IF Len(evaluations) = 0 THEN 0
    ELSE evaluations[1].score.value + ScoreSum(Tail(evaluations))

\* avg_score: the int sum over the int length, as a float
AvgScore(evaluations) == FloatDivInt(FloatOfInt(ScoreSum(evaluations)), Len(evaluations))

\* Every role with the default minimum_score.
HiringThresholdAny(role) == 70

\* self.hiring_thresholds.get(role, {}).get('minimum_score', 70)
HiringThreshold(role) ==
    CASE role = "finance" -> 75
      [] role = "operations" -> 70
      [] role = "data_analytics" -> 80
      [] OTHER -> 70

\* The decision and confidence of the strict criteria.
RuleDecision(avg_score, threshold) ==
    IF FloatGeqInt(avg_score, 85)
    THEN [decision |-> "STRONG HIRE", confidence |-> "High"]
    ELSE IF FloatGeqInt(avg_score, threshold)
    THEN [decision |-> "CONDITIONAL HIRE", confidence |-> "Medium"]
    ELSE IF FloatGeqInt(avg_score, 50)
    THEN [decision |-> "NO HIRE - TRAINING REQUIRED", confidence |-> "High"]
    ELSE [decision |-> "REJECT", confidence |-> "High"]

\* The evaluations with a score below a limit.
ScoresBelow(evaluations, limit) ==
    Cardinality({ k \in 1..Len(evaluations) : evaluations[k].score.value < limit })

\* A check for critical failures that fires at half of the evaluations.
CriticalFailuresAtHalf(evaluations) ==
    ScoresBelow(evaluations, 30) >= Len(evaluations) \div 2

\* A check for critical failures that fires at the first score below 30.
CriticalFailuresAny(evaluations) ==
    ScoresBelow(evaluations, 30) > 0

\* critical_failures > len(evaluations) // 2
CriticalFailures(evaluations) ==
    ScoresBelow(evaluations, 30) > Len(evaluations) \div 2

\* _make_hiring_decision(avg_score, role, evaluations)
make_hiring_decision(avg_score, role, evaluations) ==
    LET threshold == HiringThreshold(role)
        rule == RuleDecision(avg_score, threshold)
        override == CriticalFailures(evaluations)
    IN  [decision |-> IF override THEN "REJECT" ELSE rule.decision,
         confidence |-> IF override THEN "High" ELSE rule.confidence,
         meets_threshold |-> FloatGeqInt(avg_score, threshold)]

\* The gaps _identify_critical_gaps appends, each named by the words before
\* the colon of its text, gap_of_role the role-specific gaps.
AppendedGaps(evaluations, avg_score, gap_of_role) ==
    (IF ~FloatGeqInt(avg_score, 30) THEN <<"CRITICAL">> ELSE <<>>)
      \o (IF ~FloatGeqInt(avg_score, 50) THEN <<"MAJOR">> ELSE <<>>)
      \o (IF ScoresBelow(evaluations, 40) > 2 THEN <<"PATTERN">> ELSE <<>>)
      \o gap_of_role

\* Gaps with the role-specific gap put first.
CriticalGapsRoleFirst(evaluations, role) ==
    LET avg_score == AvgScore(evaluations)
        role_gap == IF role = "finance" /\ ~FloatGeqInt(avg_score, 70)
                    THEN <<"FINANCE CRITICAL">>
                    ELSE IF role = "data_analytics" /\ ~FloatGeqInt(avg_score, 75)
                    THEN <<"ANALYTICS CRITICAL">>
                    ELSE <<>>
    IN  Take(role_gap \o AppendedGaps(evaluations, avg_score, <<>>), 3)

\* _identify_critical_gaps(evaluations, role)
identify_critical_gaps(evaluations, role) ==
    LET avg_score == AvgScore(evaluations)
        role_gap == IF role = "finance" /\ ~FloatGeqInt(avg_score, 70)
                    THEN <<"FINANCE CRITICAL">>
                    ELSE IF role = "data_analytics" /\ ~FloatGeqInt(avg_score, 75)
                    THEN <<"ANALYTICS CRITICAL">>
                    ELSE <<>>
    IN  Take(AppendedGaps(evaluations, avg_score, role_gap), 3)

\* generate_final_report(evaluations, role).  Of the report's keys the model
\* keeps overall_score (in tenths), hiring_decision and critical_gaps.
generate_final_report(evaluations, role) ==
    IF Len(evaluations) = 0
    THEN [error |-> "No evaluations to report"]
    ELSE LET avg_score == AvgScore(evaluations)
         IN  [overall_score |-> RoundTenths(avg_score),
              hiring_decision |-> make_hiring_decision(avg_score, role, evaluations),
              critical_gaps |-> identify_critical_gaps(evaluations, role)]

(***************************************************************************)
(* InterviewOrchestrator                                                   *)
(***************************************************************************)
\* A target_distribution that gives basic and intermediate one more each
\* whenever target_count is no multiple of 3.
TargetDistributionBothExtra(target_count, difficulty) ==
    CASE difficulty \in {"basic", "intermediate"} ->
            target_count \div 3 + (IF target_count % 3 > 0 THEN 1 ELSE 0)
      [] OTHER -> target_count \div 3

\* target_distribution of _balance_question_selection
TargetDistribution(target_count, difficulty) ==
    CASE difficulty = "basic" ->
            target_count \div 3 + (IF target_count % 3 > 0 THEN 1 ELSE 0)
      [] difficulty = "intermediate" ->
            target_count \div 3 + (IF target_count % 3 > 1 THEN 1 ELSE 0)
      [] OTHER -> target_count \div 3

SeqElems(seq) == { seq[i] : i \in 1..Len(seq) }

\* _balance_question_selection(questions, target_count)
balance_question_selection(qs, target_count) ==
    IF Len(qs) <= target_count THEN qs
    ELSE LET Group(d) == SelectSeq(qs, LAMBDA q : q.difficulty = d)
             Best(d) == Take(SortByEffectiveness(Group(d)), TargetDistribution(target_count, d))
             selected == Best("basic") \o Best("intermediate") \o Best("advanced")
             remaining == SelectSeq(qs, LAMBDA q : q \notin SeqElems(selected))
             filled == IF Len(selected) < target_count
                       THEN selected \o Take(SortByEffectiveness(remaining),
                                             target_count - Len(selected))
                       ELSE selected
         IN  Take(filled, target_count)

\* _select_interview_questions(role, count): every [questions, used] it can
\* end with.  The call passes role and count to get_best_questions by
\* position, so they arrive as its category and difficulty.
select_interview_questions(qs, role, count, used, seed) ==
    LET stored_questions == get_best_questions(qs, PyStr(role), PyInt(count), DefaultBestCount)
    IN  IF Len(stored_questions) < count
        THEN { [questions |-> balance_question_selection(
                                  stored_questions \o g.questions, count),
                used |-> g.used] :
                 g \in generate_interview_questions(
                           role, count - Len(stored_questions), used, seed) }
        ELSE { [questions |-> balance_question_selection(
                                  Take(stored_questions, count), count),
                used |-> used] }

\* The loop of start_interview that stores the generated questions.
RECURSIVE StoreGenerated(_, _)
StoreGenerated(qs, selected) ==
    IF Len(selected) = 0 THEN qs
    ELSE StoreGenerated(
            IF selected[1].generated THEN store_question(qs, selected[1]) ELSE qs,
            Tail(selected))

Now == "now"

\* get_current_question, <<>> for None
get_current_question(ci) ==
    IF Len(ci) = 0 THEN <<>>
    ELSE IF ci[1].current_question_index < Len(ci[1].questions)
    THEN << ci[1].questions[ci[1].current_question_index + 1] >>
    ELSE <<>>

\* _calculate_consistency(evaluations)
calculate_consistency(evaluations) ==
    IF Len(evaluations) < 2 THEN "insufficient_data"
    ELSE LET n == Len(evaluations)
             avg_score == AvgScore(evaluations)
             squares == [k \in 1..n |->
                 LET d == FloatAbsDiff(FloatOfInt(evaluations[k].score.value), avg_score)
                 IN  FloatMul(d, d)]
             variance == FloatDivInt(FloatSum(squares), n)
             std_dev == FloatSqrt(variance)
         IN  IF FloatLeqInt(std_dev, 10) THEN "very_consistent"
             ELSE IF FloatLeqInt(std_dev, 20) THEN "consistent"
             ELSE IF FloatLeqInt(std_dev, 30) THEN "somewhat_variable"
             ELSE "highly_variable"

\* What a call hands back: the error of an {'error': ...} dict, the status of
\* a success dict, the question it carries, or that it raised.  args holds the
\* arguments of a call made on values handed to it, value the value (a list,
\* a report, a label) such a call or a completion returns.
Returned(op, error, status, question) ==
    [op |-> op, error |-> error, status |-> status, question |-> question,
     raised |-> FALSE, completing |-> FALSE, args |-> <<>>, value |-> <<>>]

Raised(op) ==
    [op |-> op, error |-> "", status |-> "", question |-> <<>>,
     raised |-> TRUE, completing |-> FALSE, args |-> <<>>, value |-> <<>>]

\* A call of op about to be made with the arguments args.
Pending(op, args) == [Returned(op, "", "pending", <<>>) EXCEPT !.args = args]

\* The call of result returns v.
ReturnValue(v) == [result EXCEPT !.status = "returned", !.value = <<v>>]

\* (k / n) * 100 as submit_answer and get_interview_status compute it
Percentage(k, n) == FloatMulInt(FloatDivInt(FloatOfInt(k), n), 100)

\* The progress submit_answer reports with status continue, ci the session
\* after the cursor has advanced.
SubmitProgress(ci) ==
    [current |-> ci.current_question_index + 1,
     total |-> Len(ci.questions),
     percentage |-> Percentage(ci.current_question_index + 1, Len(ci.questions))]

\* get_interview_status(); the division raises on a session of no questions.
get_interview_status(ci) ==
    IF Len(ci) = 0 THEN [status |-> "no_active_interview", raised |-> FALSE]
    ELSE IF Len(ci[1].questions) = 0 THEN [status |-> "", raised |-> TRUE]
    ELSE [status |-> ci[1].status,
          raised |-> FALSE,
          interview_id |-> ci[1].interview_id,
          role |-> ci[1].role,
          progress |->
             [current_question |-> ci[1].current_question_index + 1,
              total_questions |-> Len(ci[1].questions),
              percentage |-> Percentage(ci[1].current_question_index,
                                        Len(ci[1].questions))]]

\* The level of _classify_performance(avg_score)
classify_performance(avg_score) ==
    IF FloatGeqInt(avg_score, 90) THEN "Exceptional"
    ELSE IF FloatGeqInt(avg_score, 80) THEN "Excellent"
    ELSE IF FloatGeqInt(avg_score, 70) THEN "Good"
    ELSE IF FloatGeqInt(avg_score, 60) THEN "Average"
    ELSE IF FloatGeqInt(avg_score, 50) THEN "Below Average"
    ELSE "Poor"

\* final_report = self._generate_final_report(), the scores numbers.  Of the
\* report's keys the model keeps performance_level (the recommendation is
\* fixed by it) and question_count; the consistency of its score_distribution
\* is calculate_consistency, taken on its own in SpecConsistency.
final_report(interview) ==
    IF Len(interview.evaluations) = 0
    THEN [error |-> "No evaluations available"]
    ELSE [performance_level |-> classify_performance(AvgScore(interview.evaluations)),
          question_count |-> Len(interview.evaluations)]

\* A report that reads no score.
ReportNeverRaises(interview) == FALSE

\* _generate_final_report raises TypeError when it sums the scores and one of
\* them is no number.
ReportRaises(interview) ==
    \E i \in 1..Len(interview.evaluations) : ~interview.evaluations[i].score.numeric

\* _complete_interview, called with an interview in the slot: the slot, the
\* history and the result it leaves.
complete_interview(op, ci, history) ==
    LET done == [ci[1] EXCEPT !.status = "completed", !.end_time = <<Now>>]
    IN  IF Len(ci) = 0
        THEN [current |-> ci, history |-> history,
              result |-> [Returned(op, "No active interview to complete", "", <<>>)
                            EXCEPT !.completing = TRUE]]
        ELSE IF ReportRaises(done)
        THEN [current |-> <<done>>, history |-> history,
              result |-> [Raised(op) EXCEPT !.completing = TRUE]]
        ELSE [current |-> <<>>, history |-> Append(history, done),
              result |-> [Returned(op, "", "completed", <<>>)
                            EXCEPT !.completing = TRUE,
                                   !.value = <<final_report(done)>>]]


(***************************************************************************)
(* The inputs of the calls.                                                *)
(***************************************************************************)
\* The roles of role_focus, a role it does not know, and an unknown role whose
\* name is the name of a category.
Roles == {"finance", "operations", "data_analytics", "general", "basic_formulas"}

\* The roles of the sessions of Spec.
SessionRoles == {"finance"}

\* _generate_interview_id: the ids it can return for the starts of one second,
\* the second's timestamp with a suffix of random.randint(1000, 9999).  Starts
\* of different seconds get different ids, as starts with different suffixes.
InterviewIds == {1000, 9999}

HashSeeds == {0, 1}

\* What evaluate_comprehensive can hand back for an answer: the rule-based
\* fallback's score for an empty answer, and an AI reply whose "score" is no
\* number.
Evaluations ==
    { [score |-> NumberScore(40), evaluation_source |-> "Enhanced_Fallback"],
      [score |-> NonNumberScore, evaluation_source |-> "AI"] }

NoResult == Returned("none", "", "", <<>>)

\* A generated question as earlier processes stored it.
StoredQuestion(seed) ==
    Question(StrHash([template |-> 1, values |-> <<1>>], seed) % IdSpace,
             [template |-> 1, values |-> <<1>>], "basic_formulas", "basic", TRUE)

\* A store as load_questions can find it: empty, or holding the same generated
\* question twice (stored by two processes), one of them used.
StoredBefore(seed) ==
    { <<>>,
      << UpdatedRecord(StoreEntry(StoredQuestion(seed)), 100),
         StoreEntry(StoredQuestion(seed)) >> }

\* The scores recorded on the question of SpecStore.
Scores == {40, 100}

Init ==
    /\ hash_seed \in HashSeeds
    /\ questions = <<>>
    /\ used_questions = {}
    /\ current_interview = <<>>
    /\ interview_history = <<>>
    /\ result = NoResult
    /\ calls = 0

(***************************************************************************)
(* The calls.                                                              *)
(***************************************************************************)
\* start_interview(role, question_count=count)
StartInterview(role, count, interview_id) ==
    /\ \E sel \in select_interview_questions(questions, role, count,
                                             used_questions, hash_seed) :
        /\ current_interview' =
             << [interview_id |-> interview_id,
                 role |-> role,
                 questions |-> sel.questions,
                 responses |-> <<>>,
                 evaluations |-> <<>>,
                 start_time |-> <<Now>>,
                 current_question_index |-> 0,
                 status |-> "in_progress",
                 end_time |-> <<>>,
                 pause_time |-> <<>>,
                 resume_time |-> <<>>] >>
        /\ questions' = StoreGenerated(questions, sel.questions)
        /\ used_questions' = sel.used
        /\ result' = Returned("start_interview", "", "started", Take(sel.questions, 1))
    /\ calls' = calls + 1
    /\ UNCHANGED <<interview_history, hash_seed>>

\* submit_answer(response), evaluation what the evaluator hands back for it
SubmitAnswer(evaluation) ==
    LET current_question == get_current_question(current_interview)
    IN  IF Len(current_interview) = 0
        THEN /\ result' = Returned("submit_answer", "No active interview session", "", <<>>)
             /\ UNCHANGED <<questions, used_questions, current_interview,
                            interview_history, hash_seed, calls>>
        ELSE IF Len(current_question) = 0
        THEN /\ result' = Returned("submit_answer", "No current question available", "", <<>>)
             /\ UNCHANGED <<questions, used_questions, current_interview,
                            interview_history, hash_seed, calls>>
        ELSE LET q == current_question[1]
                 ev == [score |-> evaluation.score,
                        evaluation_source |-> evaluation.evaluation_source,
                        question_id |-> q.id]
                 answered == [current_interview[1] EXCEPT
                                !.responses = Append(@, [question_id |-> q.id]),
                                !.evaluations = Append(@, ev)]
                 upd == update_question_performance(questions, q.id, ev.score)
                 advanced == [answered EXCEPT !.current_question_index = @ + 1]
             IN  /\ questions' = upd.questions
                 /\ UNCHANGED <<used_questions, hash_seed, calls>>
                 /\ IF upd.raised
                    THEN /\ current_interview' = <<answered>>
                         /\ interview_history' = interview_history
                         /\ result' = Raised("submit_answer")
                    ELSE IF advanced.current_question_index >= Len(advanced.questions)
                    THEN LET c == complete_interview("submit_answer", <<advanced>>,
                                                     interview_history)
                         IN  /\ current_interview' = c.current
                             /\ interview_history' = c.history
                             /\ result' = c.result
                    ELSE /\ current_interview' = <<advanced>>
                         /\ interview_history' = interview_history
                         /\ result' = [Returned("submit_answer", "", "continue",
                                                get_current_question(<<advanced>>))
                                           EXCEPT !.value = <<SubmitProgress(advanced)>>]

\* _complete_interview called once more, right after a call that ran it
CompleteInterview ==
    /\ result.completing
    /\ LET c == complete_interview("_complete_interview", current_interview,
                                   interview_history)
       IN  /\ current_interview' = c.current
           /\ interview_history' = c.history
           /\ result' = c.result
    /\ UNCHANGED <<questions, used_questions, hash_seed, calls>>

\* A pause_interview that reports success when there is no interview.
PauseWithoutSessionCheck ==
    /\ IF Len(current_interview) = 0
       THEN /\ result' = Returned("pause_interview", "", "paused", <<>>)
            /\ UNCHANGED current_interview
       ELSE /\ current_interview' =
                 << [current_interview[1] EXCEPT !.status = "paused",
                                                 !.pause_time = <<Now>>] >>
            /\ result' = Returned("pause_interview", "", "paused", <<>>)
    /\ UNCHANGED <<questions, used_questions, interview_history, hash_seed, calls>>

\* pause_interview()
PauseInterview ==
    /\ IF Len(current_interview) = 0
       THEN /\ result' = Returned("pause_interview", "No active interview to pause", "", <<>>)
            /\ UNCHANGED current_interview
       ELSE /\ current_interview' =
                 << [current_interview[1] EXCEPT !.status = "paused",
                                                 !.pause_time = <<Now>>] >>
            /\ result' = Returned("pause_interview", "", "paused", <<>>)
    /\ UNCHANGED <<questions, used_questions, interview_history, hash_seed, calls>>

\* resume_interview()
ResumeInterview ==
    /\ IF Len(current_interview) = 0
       THEN /\ result' = Returned("resume_interview", "No interview to resume", "", <<>>)
            /\ UNCHANGED current_interview
       ELSE IF current_interview[1].status # "paused"
       THEN /\ result' = Returned("resume_interview", "Interview is not in paused state", "", <<>>)
            /\ UNCHANGED current_interview
       ELSE LET resumed == [current_interview[1] EXCEPT !.status = "in_progress",
                                                        !.resume_time = <<Now>>]
            IN  /\ current_interview' = <<resumed>>
                /\ result' = Returned("resume_interview", "", "resumed",
                                      get_current_question(<<resumed>>))
    /\ UNCHANGED <<questions, used_questions, interview_history, hash_seed, calls>>

\* get_interview_history(limit): self.interview_history[-limit:] of a history
\* that is not empty, where -0 is 0 and the slice from 0 is the whole list.
get_interview_history(history, limit) ==
    IF Len(history) = 0 THEN <<>>
    ELSE IF limit = 0 THEN history
    ELSE SubSeq(history, (IF limit < Len(history) THEN Len(history) - limit + 1 ELSE 1),
                Len(history))

HistoryLimit == 2

\* get_interview_history(limit)
GetInterviewHistory(limit) ==
    /\ result' = [Returned("get_interview_history", "", "", <<>>)
                    EXCEPT !.args = <<limit>>,
                           !.value = <<get_interview_history(interview_history, limit)>>]
    /\ UNCHANGED <<questions, used_questions, current_interview, interview_history,
                   hash_seed, calls>>

\* The calls of a process that starts at most starts interviews, asks for at
\* most max_count questions and submits at most answers answers to a session.
Calls(starts, max_count, answers) ==
    \/ /\ calls < starts
       /\ \E role \in SessionRoles, count \in 0..max_count, interview_id \in InterviewIds :
            StartInterview(role, count, interview_id)
    \/ /\ Len(get_current_question(current_interview)) = 1
            => Len(current_interview[1].responses) < answers
       /\ \E evaluation \in Evaluations : SubmitAnswer(evaluation)
    \/ CompleteInterview
    \/ PauseInterview
    \/ ResumeInterview
    \/ \E limit \in 0..HistoryLimit : GetInterviewHistory(limit)

Next == Calls(MaxStarts, MaxCount, MaxAnswers)

Spec == Init /\ [][Next]_vars

(***************************************************************************)
(* SpecSession: the calls made on one interview.                           *)
(***************************************************************************)
NextSession == Calls(SessionStarts, SessionMaxCount, SessionAnswers)

SpecSession == Init /\ [][NextSession]_vars

(***************************************************************************)
(* SpecRestart: the calls made on one interview by a process that finds a  *)
(* store of an earlier process: empty, or one generated question.          *)
(***************************************************************************)
InitRestart ==
    /\ hash_seed \in HashSeeds
    /\ questions \in { <<>>, store_question(<<>>, StoredQuestion(hash_seed)) }
    /\ used_questions = {}
    /\ current_interview = <<>>
    /\ interview_history = <<>>
    /\ result = NoResult
    /\ calls = 0

SpecRestart == InitRestart /\ [][NextSession]_vars

(***************************************************************************)
(* SpecStore: outcomes recorded on one freshly stored question.            *)
(***************************************************************************)
InitStore ==
    /\ hash_seed \in HashSeeds
    /\ questions = store_question(<<>>, StoredQuestion(hash_seed))
    /\ used_questions = {}
    /\ current_interview = <<>>
    /\ interview_history = <<>>
    /\ result = NoResult
    /\ calls = 0

\* update_question_performance(question_id, score) on the stored question
RecordOutcome(score) ==
    /\ questions[1].usage_count < MaxOutcomes
    /\ questions' = update_question_performance(questions, questions[1].id,
                                                NumberScore(score)).questions
    /\ UNCHANGED <<used_questions, current_interview, interview_history,
                   hash_seed, result, calls>>

NextStore == \E score \in Scores : RecordOutcome(score)

SpecStore == InitStore /\ [][NextStore]_vars

(***************************************************************************)
(* SpecStoreCalls: store_question and update_question_performance called   *)
(* on a store, with ids the store holds and ids it does not hold.          *)
(***************************************************************************)
OtherQuestion ==
    Question(7, [template |-> 2, values |-> <<2>>], "lookup_functions", "intermediate", TRUE)

\* The questions handed to store_question: generated ones, and one that
\* carries the counters of a used record.
QuestionsToStore ==
    { StoredQuestion(0), OtherQuestion,
      UpdatedRecord(StoreEntry(StoredQuestion(0)), 100) }

\* The ids handed to update_question_performance; no question has id 0.
QuestionIds == { q.id : q \in QuestionsToStore } \cup {0}

ScoresToRecord == { NumberScore(40), NonNumberScore }

InitStoreCalls ==
    /\ hash_seed = 0
    /\ questions \in StoredBefore(0)
    /\ used_questions = {}
    /\ current_interview = <<>>
    /\ interview_history = <<>>
    /\ result = NoResult
    /\ calls = 0

\* store_question(question)
StoreQuestion(question) ==
    /\ Len(questions) < MaxStored
    /\ questions' = store_question(questions, question)
    /\ result' = [Returned("store_question", "", "", <<>>) EXCEPT !.args = <<question>>]
    /\ UNCHANGED <<used_questions, current_interview, interview_history,
                   hash_seed, calls>>

\* update_question_performance(question_id, score)
UpdateQuestionPerformance(question_id, score) ==
    /\ \A i \in 1..Len(questions) : questions[i].usage_count < MaxUses
    /\ LET upd == update_question_performance(questions, question_id, score)
       IN  /\ questions' = upd.questions
           /\ result' = [(IF upd.raised THEN Raised("update_question_performance")
                          ELSE Returned("update_question_performance", "", "", <<>>))
                            EXCEPT !.args = <<question_id, score>>]
    /\ UNCHANGED <<used_questions, current_interview, interview_history,
                   hash_seed, calls>>

NextStoreCalls ==
    \/ \E question \in QuestionsToStore : StoreQuestion(question)
    \/ \E question_id \in QuestionIds, score \in ScoresToRecord :
          UpdateQuestionPerformance(question_id, score)

SpecStoreCalls == InitStoreCalls /\ [][NextStoreCalls]_vars

(***************************************************************************)
(* SpecBest: get_best_questions on the stores that storing two questions   *)
(* and recording up to two outcomes leave.                                 *)
(***************************************************************************)
\* The <<category, difficulty>> filters handed to get_best_questions: none,
\* the category or the difficulty of a stored question, and a role name with
\* an int (what _select_interview_questions passes).
BestFilters ==
    { <<PyNone, PyNone>>, <<PyStr("basic_formulas"), PyNone>>,
      <<PyNone, PyStr("basic")>>, <<PyStr("finance"), PyInt(1)>> }

\* The store after the calls update_question_performance(id, score) of a
\* sequence of <<id, score>>, a call that raises leaving what it has done.
RECURSIVE RecordOutcomes(_, _)
RecordOutcomes(qs, outcomes) ==
    IF Len(outcomes) = 0 THEN qs
    ELSE RecordOutcomes(
            update_question_performance(qs, outcomes[1][1], outcomes[1][2]).questions,
            Tail(outcomes))

BestStores ==
    LET stored == { <<>>,
                    store_question(store_question(<<>>, OtherQuestion), StoredQuestion(0)),
                    store_question(store_question(<<>>, StoredQuestion(0)), OtherQuestion) }
        outcome == { StoredQuestion(0).id, OtherQuestion.id } \X ScoresToRecord
        outcomes == UNION { [1..n -> outcome] : n \in 0..MaxUses }
    IN  { RecordOutcomes(qs, o) : qs \in stored, o \in outcomes }

InitBest ==
    /\ hash_seed = 0
    /\ questions \in BestStores
    /\ used_questions = {}
    /\ current_interview = <<>>
    /\ interview_history = <<>>
    /\ result \in { Pending("get_best_questions", <<filter[1], filter[2], count>>) :
                       filter \in BestFilters, count \in 0..MaxStored }
    /\ calls = 0

\* get_best_questions(category, difficulty, count)
GetBestQuestions ==
    /\ result.op = "get_best_questions"
    /\ result.status = "pending"
    /\ result' = ReturnValue(get_best_questions(questions, result.args[1],
                                                result.args[2], result.args[3]))
    /\ UNCHANGED <<questions, used_questions, current_interview, interview_history,
                   hash_seed, calls>>

SpecBest == InitBest /\ [][GetBestQuestions]_vars

(***************************************************************************)
(* SpecSelect: one start_interview, over the roles, the counts, the stores *)
(* and the ids the generator of the process has used.                      *)
(***************************************************************************)
InitSelect ==
    /\ hash_seed \in HashSeeds
    /\ questions \in StoredBefore(hash_seed)
    /\ used_questions \in { {}, {StoredQuestion(hash_seed).id} }
    /\ current_interview = <<>>
    /\ interview_history = <<>>
    /\ result = NoResult
    /\ calls = 0

NextSelect ==
    \E role \in Roles, count \in 0..SelectMaxCount, interview_id \in InterviewIds :
        /\ calls = 0
        /\ StartInterview(role, count, interview_id)

SpecSelect == InitSelect /\ [][NextSelect]_vars

(***************************************************************************)
(* SpecReport: generate_final_report on a list of evaluations and a role.  *)
(***************************************************************************)
ReportRoles == {"finance", "operations", "data_analytics", "general"}

ReportScores == {10, 20, 25, 30, 55, 72, 85, 90}

\* The evaluation of an answer with a score.
Evaluation(score) == [score |-> NumberScore(score), evaluation_source |-> "AI"]

\* The lists of up to n evaluations with scores of a set.
EvaluationLists(scores, n) ==
    UNION { [1..len -> { Evaluation(score) : score \in scores }] : len \in 0..n }

\* The evaluations of a long interview: all of one score, a decision
\* boundary, but for the first few, which are one point below it.
LongInterview == 25

LongEvaluationLists ==
    { [k \in 1..LongInterview |-> Evaluation(IF k <= below THEN score - 1 ELSE score)] :
        score \in {50, 70, 75, 80, 85}, below \in 0..2 }

\* The evaluations at the ends of the override: scores of 29, the highest
\* critical failure, and of 100, the highest score.
OverrideEvaluationLists == EvaluationLists({29, 100}, MaxEvaluations)

InitReport ==
    /\ hash_seed = 0
    /\ questions = <<>>
    /\ used_questions = {}
    /\ current_interview = <<>>
    /\ interview_history = <<>>
    /\ result \in { Pending("generate_final_report", <<evaluations, role>>) :
                        evaluations \in EvaluationLists(ReportScores, MaxEvaluations)
                                           \cup LongEvaluationLists
                                           \cup OverrideEvaluationLists,
                        role \in ReportRoles }
    /\ calls = 0

\* generate_final_report(evaluations, role)
GenerateFinalReport ==
    /\ result.op = "generate_final_report"
    /\ result.status = "pending"
    /\ result' = ReturnValue(generate_final_report(result.args[1], result.args[2]))
    /\ UNCHANGED <<questions, used_questions, current_interview, interview_history,
                   hash_seed, calls>>

SpecReport == InitReport /\ [][GenerateFinalReport]_vars

(***************************************************************************)
(* SpecReview: review_answer on an answer, over what the AI call can do.   *)
(***************************************************************************)
MaxLines == 2

\* The answers: by number of words, whether an Excel function is named and
\* whether "=" or "()" occurs.
CandidateAnswers ==
    { [kind |-> "str", words |-> w, mentions_function |-> f, has_formula |-> e] :
        w \in {3, 10, 20, 40}, f \in BOOLEAN, e \in BOOLEAN }

\* What the AI call can do: raise, return a reply that cannot be read, a
\* JSON object (with the four numbers, some out of range or no numbers, or
\* without them), or lines of text.
AIReplies ==
    LET values == { NumberScore(85), NumberScore(150), NumberScore(-5), NonNumberScore }
        objects == { [score |-> v, technical_accuracy |-> NumberScore(90), depth |-> d,
                      practical_application |-> NumberScore(85)] :
                        v \in values, d \in values }
                     \cup { [overall_feedback |-> "Good"] }
        line == { [mentions_score |-> TRUE, numbers |-> <<85, 100>>],
                  [mentions_score |-> TRUE, numbers |-> <<5>>],
                  [mentions_score |-> TRUE, numbers |-> <<250>>],
                  [mentions_score |-> TRUE, numbers |-> <<>>],
                  [mentions_score |-> FALSE, numbers |-> <<3>>] }
        lines == UNION { [1..n -> line] : n \in 0..MaxLines }
    IN  { [call |-> "raises", text |-> <<>>], [call |-> "returns", text |-> <<>>] }
          \cup { [call |-> "returns", text |-> << [lines |-> <<>>, object |-> <<o>>] >>] :
                    o \in objects }
          \cup { [call |-> "returns", text |-> << [lines |-> l, object |-> <<>>] >>] :
                    l \in lines }

InitReview ==
    /\ hash_seed = 0
    /\ questions = <<>>
    /\ used_questions = {}
    /\ current_interview = <<>>
    /\ interview_history = <<>>
    /\ result \in { Pending("review_answer", <<response, reply>>) :
                       response \in CandidateAnswers, reply \in AIReplies }
    /\ calls = 0

\* review_answer(question, response)
ReviewAnswer ==
    /\ result.op = "review_answer"
    /\ result.status = "pending"
    /\ LET r == review_answer(result.args[1], result.args[2])
       IN  result' = IF r.raised
                     THEN [Raised("review_answer") EXCEPT !.args = result.args]
                     ELSE ReturnValue(r.evaluation[1])
    /\ UNCHANGED <<questions, used_questions, current_interview, interview_history,
                   hash_seed, calls>>

SpecReview == InitReview /\ [][ReviewAnswer]_vars

(***************************************************************************)
(* SpecConsistency: _calculate_consistency on the scores of consecutive    *)
(* answers of a few interviews.                                            *)
(***************************************************************************)
InterviewScores ==
    { <<80, 82, 79, 81>>,
      <<95, 40, 60, 85>>,
      <<20, 20, 30, 30, 85, 85, 85, 85, 85>>,
      <<98, 15, 27, 9, 73, 4, 30, 36, 11>>,
      <<70, 30, 44, 45, 56, 52, 50, 50, 50>> }

\* The evaluations of the answers first..last of an interview.
Answers(scores, first, last) ==
    [k \in 1..(last - first + 1) |-> Evaluation(scores[first + k - 1])]

InitConsistency ==
    /\ hash_seed = 0
    /\ questions = <<>>
    /\ used_questions = {}
    /\ current_interview = <<>>
    /\ interview_history = <<>>
    /\ result \in UNION {
           { Pending("_calculate_consistency", <<Answers(scores, run[1], run[2])>>) :
                 run \in { w \in (1..Len(scores)) \X (0..Len(scores)) : w[2] >= w[1] - 1 } } :
           scores \in InterviewScores }
    /\ calls = 0

\* _calculate_consistency(evaluations)
CalculateConsistency ==
    /\ result.op = "_calculate_consistency"
    /\ result.status = "pending"
    /\ result' = ReturnValue(calculate_consistency(result.args[1]))
    /\ UNCHANGED <<questions, used_questions, current_interview, interview_history,
                   hash_seed, calls>>

SpecConsistency == InitConsistency /\ [][CalculateConsistency]_vars

(***************************************************************************)
(* SpecBalance: _balance_question_selection on a pool of questions and a   *)
(* target count.                                                           *)
(***************************************************************************)
DifficultyCode(difficulty) ==
    CASE difficulty = "basic" -> 1 [] difficulty = "intermediate" -> 2 [] OTHER -> 3

\* The k-th question of a difficulty in a pool: a stored record, the later
\* ones of a difficulty the more effective.
PoolQuestion(difficulty, k) ==
    [StoreEntry(Question(100 * DifficultyCode(difficulty) + k,
                         [template |-> DifficultyCode(difficulty), values |-> <<k>>],
                         "basic_formulas", difficulty, TRUE))
        EXCEPT !.effectiveness_score = 500 + 10 * k]

\* The pool with nb basic, ni intermediate and na advanced questions.
Pool(nb, ni, na) ==
    [k \in 1..nb |-> PoolQuestion("basic", k)]
        \o [k \in 1..ni |-> PoolQuestion("intermediate", k)]
        \o [k \in 1..na |-> PoolQuestion("advanced", k)]

Reversed(seq) == [k \in 1..Len(seq) |-> seq[Len(seq) + 1 - k]]

Pools ==
    UNION { { Pool(nb, ni, na), Reversed(Pool(nb, ni, na)) } :
                nb \in 0..MaxPerDifficulty, ni \in 0..MaxPerDifficulty,
                na \in 0..MaxPerDifficulty }

InitBalance ==
    /\ hash_seed \in HashSeeds
    /\ questions = <<>>
    /\ used_questions = {}
    /\ current_interview = <<>>
    /\ interview_history = <<>>
    /\ result \in { Pending("_balance_question_selection", <<pool, target_count>>) :
                        pool \in Pools, target_count \in 0..MaxTarget }
    /\ calls = 0

\* _balance_question_selection(questions, target_count)
BalanceQuestionSelection ==
    /\ result.op = "_balance_question_selection"
    /\ result.status = "pending"
    /\ result' = ReturnValue(balance_question_selection(result.args[1], result.args[2]))
    /\ UNCHANGED <<questions, used_questions, current_interview, interview_history,
                   hash_seed, calls>>

SpecBalance == InitBalance /\ [][BalanceQuestionSelection]_vars

(***************************************************************************)
(* The question store's records.                                           *)
(***************************************************************************)
RECURSIVE SumOfScores(_)
SumOfScores(history) ==
    IF Len(history) = 0 THEN 0
    ELSE SumOfScores(SubSeq(history, 1, Len(history) - 1)) + history[Len(history)].score

\* The double nearest to the arithmetic mean of the recorded scores.
MeanOfScores(history) ==
    IF Len(history) = 0 THEN FloatZero
    ELSE FloatDivInt(FloatOfInt(SumOfScores(history)), Len(history))

\* C1: after any sequence of update_question_performance calls on a freshly
\* stored question, its usage_count is the length of its performance_history
\* and its avg_score is the arithmetic mean of the scores recorded.
C1_UsageCountAndMean ==
    \A i \in 1..Len(questions) :
        /\ questions[i].usage_count = Len(questions[i].performance_history)
        /\ questions[i].avg_score = MeanOfScores(questions[i].performance_history)

(***************************************************************************)
(* The session's operations.                                               *)
(***************************************************************************)
Live == Len(current_interview) = 1

SubmitStep == \E evaluation \in Evaluations : SubmitAnswer(evaluation)

\* C2: submit_answer on a live session that is paused fails with an error and
\* leaves the session (responses, evaluations, cursor, status) and the
\* question store as they were.
C2_SubmitOnPausedRejected ==
    [][ (Live /\ current_interview[1].status = "paused" /\ SubmitStep)
            => /\ result'.error # ""
               /\ current_interview' = current_interview
               /\ questions' = questions ]_vars

CursorInvariant(ci) ==
    Len(ci) = 1 =>
        /\ 0 <= ci[1].current_question_index
        /\ ci[1].current_question_index <= Len(ci[1].questions)
        /\ Len(ci[1].responses) = ci[1].current_question_index
        /\ Len(ci[1].evaluations) = ci[1].current_question_index

\* C3: a live session always has 0 <= cursor <= len(questions) and
\* len(responses) = len(evaluations) = cursor, and a submit_answer that
\* returns without error grows responses, evaluations and the cursor by one.
C3_CursorMatchesAnswers ==
    [][ /\ CursorInvariant(current_interview')
        /\ (SubmitStep /\ ~result'.raised /\ result'.error = "" /\ result'.status = "continue")
            => /\ Len(current_interview'[1].responses) = Len(current_interview[1].responses) + 1
               /\ Len(current_interview'[1].evaluations) = Len(current_interview[1].evaluations) + 1
               /\ current_interview'[1].current_question_index
                    = current_interview[1].current_question_index + 1 ]_vars

Unfinished(ci) ==
    Len(ci) = 1 /\ ci[1].status \in {"in_progress", "paused"}
        => ci[1].current_question_index # Len(ci[1].questions)

\* C4: no live session that is in_progress or paused has its cursor at the
\* number of its questions (an empty question list included), and a session is
\* archived as completed only by the step that takes its cursor there.
C4_FinalizedAtLastQuestion ==
    [][ /\ Unfinished(current_interview')
        /\ Len(interview_history') > Len(interview_history)
            => /\ Live
               /\ interview_history'[Len(interview_history')].status = "completed"
               /\ current_interview[1].current_question_index + 1
                    = Len(current_interview[1].questions) ]_vars

HistoryIdsDistinct(history) ==
    \A i, j \in 1..Len(history) :
        i # j => history[i].interview_id # history[j].interview_id

\* C5: every session id is in interview_history at most once, and running the
\* completion again with no new session started adds no entry.
C5_ArchivedOnce ==
    [][ /\ HistoryIdsDistinct(interview_history')
        /\ CompleteInterview => interview_history' = interview_history ]_vars

\* C6: pause_interview on a paused session fails with an error and leaves the
\* status and pause_time as they were; on an in_progress session it sets the
\* status to paused and records pause_time.
C6_PauseOnlyInProgress ==
    [][ (Live /\ PauseInterview)
            => IF current_interview[1].status = "paused"
               THEN /\ result'.error # ""
                    /\ current_interview' = current_interview
               ELSE current_interview[1].status = "in_progress"
                        => /\ current_interview'[1].status = "paused"
                           /\ current_interview'[1].pause_time = <<Now>> ]_vars

\* C7: resume_interview on a paused session sets the status to in_progress,
\* leaves the cursor and returns questions[cursor]; on a session that is not
\* paused it returns an error and changes no field of the session.
C7_ResumeReturnsCurrent ==
    [][ (Live /\ ResumeInterview)
            => IF current_interview[1].status = "paused"
               THEN /\ current_interview'[1].status = "in_progress"
                    /\ current_interview'[1].current_question_index
                         = current_interview[1].current_question_index
                    /\ current_interview[1].current_question_index
                         < Len(current_interview[1].questions)
                    /\ result'.question =
                         << current_interview[1].questions[
                                current_interview[1].current_question_index + 1] >>
               ELSE /\ result'.error # ""
                    /\ current_interview' = current_interview ]_vars

\* C8: with no interview in the slot, submit_answer, pause_interview and
\* resume_interview return an error and leave the slot empty, the history and
\* the question store as they were.
C8_NoSessionRejected ==
    [][ (~Live /\ (SubmitStep \/ PauseInterview \/ ResumeInterview))
            => /\ result'.error # ""
               /\ ~result'.raised
               /\ current_interview' = <<>>
               /\ interview_history' = interview_history
               /\ questions' = questions ]_vars

\* A session was archived, and a call made with the slot empty came back with
\* an error.
C8_Witness ==
    /\ ~Live
    /\ Len(interview_history) >= 1
    /\ result.op \in {"submit_answer", "pause_interview", "resume_interview"}
    /\ result.error # ""

(***************************************************************************)
(* The selection of start_interview.                                       *)
(***************************************************************************)
\* C9: whatever the role, the count and the store, the selection of
\* start_interview returns at most count questions.
C9_AtMostCount ==
    [][ \A role \in Roles, count \in 0..SelectMaxCount, interview_id \in InterviewIds :
            StartInterview(role, count, interview_id)
                => Len(current_interview'[1].questions) <= count ]_vars

\* A start returned as many questions as the largest count asks for, while
\* the generator had drawn more.
C9_Witness ==
    /\ Live
    /\ result.op = "start_interview"
    /\ Len(current_interview[1].questions) = SelectMaxCount
    /\ Cardinality(used_questions) >= SelectMaxCount + 2

IdsDistinct(qs) == \A i, j \in 1..Len(qs) : i # j => qs[i].id # qs[j].id

\* C10: whatever the role, the count and the store (a store with several
\* records of one id, a generated question with the id of a stored one), the
\* selection of start_interview returns no two questions with the same id.
C10_NoRepeatedId ==
    (Live /\ result.op = "start_interview") => IdsDistinct(current_interview[1].questions)

\* A start over a store with two records of one id selected several
\* questions, one of them generated with that id.
C10_Witness ==
    /\ Live
    /\ result.op = "start_interview"
    /\ Len(current_interview[1].questions) >= 2
    /\ \E k \in 1..Len(current_interview[1].questions) :
          Cardinality({ i \in 1..Len(questions) :
                            questions[i].id = current_interview[1].questions[k].id }) >= 3

(***************************************************************************)
(* The target buckets of _balance_question_selection.                      *)
(***************************************************************************)
\* The questions of a difficulty in a list.
CountOf(qs, difficulty) ==
    Cardinality({ k \in 1..Len(qs) : qs[k].difficulty = difficulty })

\* The call of result is a returned _balance_question_selection whose pool is
\* longer than the target count and holds, of every difficulty, at least the
\* target bucket of the difficulty.
BalancedFromFullPool ==
    /\ result.op = "_balance_question_selection"
    /\ result.status = "returned"
    /\ Len(result.args[1]) > result.args[2]
    /\ \A k \in 1..3 :
          CountOf(result.args[1], Difficulties[k])
              >= TargetDistribution(result.args[2], Difficulties[k])

\* C11: for every count the target buckets of basic, intermediate and
\* advanced sum to count, each is count/3 when 3 divides count, and a pool
\* with enough questions of every difficulty is cut to exactly these buckets.
C11_BucketsSumToCount ==
    result.op = "_balance_question_selection" =>
        LET count == result.args[2]
            basic == TargetDistribution(count, "basic")
            intermediate == TargetDistribution(count, "intermediate")
            advanced == TargetDistribution(count, "advanced")
        IN  /\ basic + intermediate + advanced = count
            /\ count % 3 = 0 => /\ basic = count \div 3
                                /\ intermediate = count \div 3
                                /\ advanced = count \div 3
            /\ BalancedFromFullPool =>
                  /\ Len(result.value[1]) = count
                  /\ \A k \in 1..3 :
                        CountOf(result.value[1], Difficulties[k])
                            = TargetDistribution(count, Difficulties[k])

\* A pool of 3 questions of each difficulty was cut to 6: 2, 2 and 2.
C11_Witness ==
    /\ BalancedFromFullPool
    /\ result.args[2] = 6
    /\ \A k \in 1..3 : CountOf(result.value[1], Difficulties[k]) = 2

\* C12 as the code has it: for count = 7 the target buckets are basic = 3,
\* intermediate = 2, advanced = 2 (count // 3 each, the one unit of the
\* remainder to basic), and a full pool is cut to them.
C12_BucketsOfSeven ==
    (result.op = "_balance_question_selection" /\ result.args[2] = 7) =>
        /\ TargetDistribution(7, "basic") = 3
        /\ TargetDistribution(7, "intermediate") = 2
        /\ TargetDistribution(7, "advanced") = 2
        /\ BalancedFromFullPool =>
              /\ CountOf(result.value[1], "basic") = 3
              /\ CountOf(result.value[1], "intermediate") = 2
              /\ CountOf(result.value[1], "advanced") = 2

\* A pool of 3 questions of each difficulty was cut to 7: 3, 2 and 2.
C12_Witness ==
    /\ BalancedFromFullPool
    /\ result.args[2] = 7
    /\ CountOf(result.value[1], "basic") = 3
    /\ CountOf(result.value[1], "intermediate") = 2
    /\ CountOf(result.value[1], "advanced") = 2

\* C12: for count = 7 the target buckets are basic = 3, intermediate = 3,
\* advanced = 1.
C12_BucketsOfSevenAsStated ==
    (result.op = "_balance_question_selection" /\ result.args[2] = 7) =>
        /\ TargetDistribution(7, "basic") = 3
        /\ TargetDistribution(7, "intermediate") = 3
        /\ TargetDistribution(7, "advanced") = 1

(***************************************************************************)
(* The hiring decision of the report generator.                            *)
(***************************************************************************)
\* The call of result is a returned generate_final_report of at least one
\* evaluation.
Reported ==
    /\ result.op = "generate_final_report"
    /\ result.status = "returned"
    /\ Len(result.args[1]) > 0

\* The role threshold as the claims give it.
StatedThreshold(role) ==
    IF role = "finance" THEN 75
    ELSE IF role = "data_analytics" THEN 80
    ELSE 70

\* The decision of the ordered rules on the exact mean total / n.
StatedRule(total, n, role) ==
    IF total >= 85 * n THEN <<"STRONG HIRE", "High">>
    ELSE IF total >= StatedThreshold(role) * n THEN <<"CONDITIONAL HIRE", "Medium">>
    ELSE IF total >= 50 * n THEN <<"NO HIRE - TRAINING REQUIRED", "High">>
    ELSE <<"REJECT", "High">>

\* Strictly more than half of the evaluations have a score below 30.
MostBelow30(evaluations) == 2 * ScoresBelow(evaluations, 30) > Len(evaluations)

\* C13: when the override does not fire the decision and confidence follow
\* the ordered rules against the role threshold (finance 75, operations 70,
\* data_analytics 80, any other role 70): mean >= 85 STRONG HIRE/High, else
\* mean >= threshold CONDITIONAL HIRE/Medium, else mean >= 50 NO HIRE -
\* TRAINING REQUIRED/High, else REJECT/High.
C13_OrderedRules ==
    (Reported /\ ~MostBelow30(result.args[1])) =>
        LET evaluations == result.args[1]
            decision == result.value[1].hiring_decision
        IN  <<decision.decision, decision.confidence>>
                = StatedRule(ScoreSum(evaluations), Len(evaluations), result.args[2])

\* Role operations, one evaluation of 72: CONDITIONAL HIRE, Medium.
C13_Witness ==
    /\ Reported
    /\ result.args[2] = "operations"
    /\ result.args[1] = <<Evaluation(72)>>
    /\ result.value[1].hiring_decision.decision = "CONDITIONAL HIRE"
    /\ result.value[1].hiring_decision.confidence = "Medium"

\* C14: strictly more than half of the evaluations below 30 gives REJECT with
\* confidence High whatever the mean; at most half below 30 leaves the
\* decision of the rules.
C14_OverrideAboveHalf ==
    Reported =>
        LET evaluations == result.args[1]
            decision == result.value[1].hiring_decision
            rule == RuleDecision(AvgScore(evaluations), HiringThreshold(result.args[2]))
        IN  IF MostBelow30(evaluations)
            THEN decision.decision = "REJECT" /\ decision.confidence = "High"
            ELSE /\ decision.decision = rule.decision
                 /\ decision.confidence = rule.confidence

\* Scores 90, 20, 25, 10 (mean 36.25): REJECT.
C14_Witness ==
    /\ Reported
    /\ result.args[1] = <<Evaluation(90), Evaluation(20), Evaluation(25), Evaluation(10)>>
    /\ result.value[1].hiring_decision.decision = "REJECT"

(***************************************************************************)
(* The consistency label of the orchestrator's report.                     *)
(***************************************************************************)
\* The call of result is a returned _calculate_consistency.
Classified == result.op = "_calculate_consistency" /\ result.status = "returned"

\* The sum of the squares of the scores.
RECURSIVE SquareSum(_)
SquareSum(evaluations) ==
    IF Len(evaluations) = 0 THEN 0
    ELSE evaluations[1].score.value * evaluations[1].score.value
            + SquareSum(Tail(evaluations))

\* The label of the population variance v of n scores with sum total and sum
\* of squares squares, v = (n * squares - total^2) / n^2, by the thresholds
\* 100, 400 and 900 (standard deviation 10, 20 and 30).
StatedLabel(n, total, squares) ==
    LET spread == n * squares - total * total
    IN  IF n < 2 THEN "insufficient_data"
        ELSE IF spread <= 100 * n * n THEN "very_consistent"
        ELSE IF spread <= 400 * n * n THEN "consistent"
        ELSE IF spread <= 900 * n * n THEN "somewhat_variable"
        ELSE "highly_variable"

\* C15: the consistency label is the label of the population standard
\* deviation s of the scores: fewer than 2 evaluations insufficient_data,
\* s <= 10 very_consistent, s <= 20 consistent, s <= 30 somewhat_variable,
\* else highly_variable.
C15_LabelOfDeviation ==
    Classified =>
        result.value[1] = StatedLabel(Len(result.args[1]), ScoreSum(result.args[1]),
                                      SquareSum(result.args[1]))

\* C16 as the code has it: the scores 95, 40, 60, 85 (population variance
\* 462.5, standard deviation 21.5) are somewhat_variable.
C16_SomewhatVariable ==
    (Classified /\ result.args[1] = Answers(<<95, 40, 60, 85>>, 1, 4)) =>
        result.value[1] = "somewhat_variable"

\* The scores 95, 40, 60, 85 have been classified.
C16_Witness ==
    /\ Classified
    /\ result.args[1] = Answers(<<95, 40, 60, 85>>, 1, 4)
    /\ result.value[1] = "somewhat_variable"

\* C16: the scores 95, 40, 60, 85 are highly_variable.
C16_HighlyVariable ==
    (Classified /\ result.args[1] = Answers(<<95, 40, 60, 85>>, 1, 4)) =>
        result.value[1] = "highly_variable"

(***************************************************************************)
(* The interview history and the report of a completed interview.          *)
(***************************************************************************)
\* C17: the interview history never holds more sessions than the retention
\* count, whatever the number of completed sessions.
C17_HistoryBounded == Len(interview_history) <= HistoryRetention

\* C18: the submit_answer that answers the last question returns status
\* completed with a report that carries the hiring decision (STRONG HIRE,
\* CONDITIONAL HIRE, NO HIRE - TRAINING REQUIRED or REJECT) of the session's
\* evaluations under the threshold of the session's role.
C18_CompletionCarriesHiringDecision ==
    (result.op = "submit_answer" /\ result.status = "completed") =>
        LET report == result.value[1]
            session == interview_history[Len(interview_history)]
        IN  /\ "hiring_decision" \in DOMAIN report
            /\ report.hiring_decision
                  = make_hiring_decision(AvgScore(session.evaluations), session.role,
                                         session.evaluations)

(***************************************************************************)
(* What the calls of the question store change.                            *)
(***************************************************************************)
\* A record of the store has the id.
Stored(question_id) == \E i \in 1..Len(questions) : questions[i].id = question_id

\* C19: update_question_performance with an id no record has changes no
\* record and adds none; with an id that records have, only the first record
\* of that id changes and every other record is as before.
C19_UpdateChangesOneRecord ==
    [][\A question_id \in QuestionIds, score \in ScoresToRecord :
          UpdateQuestionPerformance(question_id, score) =>
              /\ Len(questions') = Len(questions)
              /\ ~Stored(question_id) => questions' = questions
              /\ Stored(question_id) =>
                    \A j \in 1..Len(questions) :
                        j # FirstIndexOf(questions, question_id)
                            => questions'[j] = questions[j]]_vars

\* An update with an id no record has was made on a store of records.
C19_Witness ==
    /\ result.op = "update_question_performance"
    /\ Len(questions) > 0
    /\ ~Stored(result.args[1])

\* C20: store_question appends exactly one record, with usage_count 0,
\* avg_score 0, effectiveness_score 0.5 and an empty performance_history
\* whatever the question carried, and leaves the records before it as they
\* were.
C20_StoreAppendsFreshRecord ==
    [][\A question \in QuestionsToStore :
          StoreQuestion(question) =>
              /\ Len(questions') = Len(questions) + 1
              /\ SubSeq(questions', 1, Len(questions)) = questions
              /\ LET entry == questions'[Len(questions')]
                 IN  /\ entry.id = question.id
                     /\ entry.usage_count = 0
                     /\ entry.avg_score = FloatZero
                     /\ entry.effectiveness_score = 500
                     /\ entry.performance_history = <<>>]_vars

\* A question that carried the counters of a used record was stored.
C20_Witness ==
    /\ result.op = "store_question"
    /\ result.args[1].usage_count > 0
    /\ result.args[1].effectiveness_score # 500
    /\ questions[Len(questions)].usage_count = 0
    /\ questions[Len(questions)].effectiveness_score = 500

(***************************************************************************)
(* The questions get_best_questions returns.                               *)
(***************************************************************************)
\* The stored value of a field passes the filter v: no filter, or equal.
PassesFilter(field, v) == v.t = "none" \/ (v.t = "str" /\ v.s = field)

\* The records of qs that pass both filters, ordered by effectiveness_score
\* descending, then usage_count descending, then position in qs.
StatedBest(qs, category, difficulty) ==
    LET matching == { i \in 1..Len(qs) :
                        /\ PassesFilter(qs[i].category, category)
                        /\ PassesFilter(qs[i].difficulty, difficulty) }
        Before(i, j) ==
            \/ qs[i].effectiveness_score > qs[j].effectiveness_score
            \/ /\ qs[i].effectiveness_score = qs[j].effectiveness_score
               /\ \/ qs[i].usage_count > qs[j].usage_count
                  \/ qs[i].usage_count = qs[j].usage_count /\ i < j
        Rank(i) == Cardinality({ j \in matching : Before(j, i) }) + 1
    IN  [ k \in 1..Cardinality(matching) |->
            qs[CHOOSE i \in matching : Rank(i) = k] ]

\* C21: get_best_questions returns at most count stored questions, all of
\* them passing the category and difficulty filter, ordered by
\* effectiveness_score descending, ties by usage_count descending, remaining
\* ties by insertion order.
C21_BestByEffectivenessThenUsage ==
    (result.op = "get_best_questions" /\ result.status = "returned") =>
        result.value[1] = Take(StatedBest(questions, result.args[1], result.args[2]),
                               result.args[3])

(***************************************************************************)
(* The store at session start.                                             *)
(***************************************************************************)
\* C22: a start_interview on a store of at least count records takes its
\* count questions from the store, the most effective first, whatever their
\* category and the role.
C22_StartTakesBestStored ==
    [][ \A role \in Roles, count \in 0..SelectMaxCount, interview_id \in InterviewIds :
            (StartInterview(role, count, interview_id) /\ Len(questions) >= count)
                => /\ current_interview'[1].questions
                        = Take(StatedBest(questions, PyNone, PyNone), count)
                   /\ questions' = questions ]_vars

\* C23: a store whose records have distinct ids when the process loads it
\* has distinct ids after any starts and answers, a start storing only the
\* questions it generated.
C23_StoreIdsStayDistinct == IdsDistinct(questions)

(***************************************************************************)
(* The progress of a session.                                              *)
(***************************************************************************)
\* C24: the progress submit_answer reports with status continue is the
\* cursor after the advance over the number of questions, and its percentage
\* is the percentage get_interview_status reports in that state.
C24_ProgressIsCursorOverTotal ==
    (result.op = "submit_answer" /\ result.status = "continue") =>
        LET progress == result.value[1]
            ci == current_interview[1]
        IN  /\ progress.current = ci.current_question_index
            /\ progress.total = Len(ci.questions)
            /\ progress.percentage
                  = Percentage(ci.current_question_index, Len(ci.questions))
            /\ progress.percentage
                  = get_interview_status(current_interview).progress.percentage

(***************************************************************************)
(* A failed update of a record.                                            *)
(***************************************************************************)
\* C25: update_question_performance changes usage_count, avg_score and
\* performance_history of a record together or not at all, also when it
\* fails part-way, so a record whose usage_count is the length of its
\* performance_history is such a record after the call.
C25_UpdateAllOrNothing ==
    [][\A question_id \in QuestionIds, score \in ScoresToRecord :
          UpdateQuestionPerformance(question_id, score) =>
              \A j \in 1..Len(questions) :
                  LET before == questions[j]
                      after == questions'[j]
                  IN  /\ \/ /\ after.usage_count = before.usage_count
                            /\ after.avg_score = before.avg_score
                            /\ after.performance_history = before.performance_history
                         \/ /\ score.numeric
                            /\ after.usage_count = before.usage_count + 1
                            /\ after.avg_score
                                  = UpdatedRecord(before, score.value).avg_score
                            /\ after.performance_history
                                  = Append(before.performance_history,
                                           [score |-> score.value])
                      /\ before.usage_count = Len(before.performance_history)
                            => after.usage_count = Len(after.performance_history)]_vars

(***************************************************************************)
(* The evaluation review_answer returns.                                   *)
(***************************************************************************)
\* The AI path of the reviewed call failed: the call raised or its reply
\* could not be read.
AIPathFailed == result.args[2].call = "raises" \/ Len(result.args[2].text) = 0

\* C26: whatever the AI call does, review_answer raises nothing and returns
\* an evaluation with score, technical_accuracy, depth,
\* practical_application, strengths, improvements and a source tag, the tag
\* of the rule-based fallback whenever the AI path failed.
C26_ReviewAlwaysReturns ==
    (result.op = "review_answer" /\ result.status # "pending") =>
        /\ ~result.raised
        /\ { "score", "technical_accuracy", "depth", "practical_application",
              "strengths", "improvements", "evaluation_source" }
               \subseteq DOMAIN result.value[1]
        /\ AIPathFailed => result.value[1].evaluation_source = "Enhanced_Fallback"

\* A number of 0..100.
InRange(v) == v.numeric /\ v.value \in 0..100

\* C27: the evaluation of each of the three paths (AI JSON, AI text,
\* rule-based fallback) has score, technical_accuracy, depth and
\* practical_application within 0..100.
C27_ScoresInRange ==
    (result.op = "review_answer" /\ result.status = "returned") =>
        /\ InRange(result.value[1].score)
        /\ InRange(result.value[1].technical_accuracy)
        /\ InRange(result.value[1].depth)
        /\ InRange(result.value[1].practical_application)

(***************************************************************************)
(* The critical gaps of the hiring report.                                 *)
(***************************************************************************)
\* The place of a gap in the priority order; the role-tagged gaps are last.
GapPriority(gap) ==
    CASE gap = "CRITICAL" -> 1
      [] gap = "MAJOR" -> 2
      [] gap = "PATTERN" -> 3
      [] OTHER -> 4

\* C28: critical_gaps has at most 3 entries, in the priority order
\* lacks-basic-knowledge (mean < 30), cannot-perform-essential-functions
\* (mean < 50), consistent-poor-performance (more than 2 evaluations below
\* 40), role-tagged gap; each of the first three is listed exactly when its
\* condition holds, so a mean below 30 yields both of the first two.
C28_GapsCappedInPriorityOrder ==
    Reported =>
        LET evaluations == result.args[1]
            gaps == result.value[1].critical_gaps
            total == ScoreSum(evaluations)
            n == Len(evaluations)
            Listed(gap) == \E k \in 1..Len(gaps) : gaps[k] = gap
        IN  /\ Len(gaps) <= 3
            /\ \A i, j \in 1..Len(gaps) :
                  i < j => GapPriority(gaps[i]) < GapPriority(gaps[j])
            /\ Listed("CRITICAL") <=> total < 30 * n
            /\ Listed("MAJOR") <=> total < 50 * n
            /\ Listed("PATTERN") <=> ScoresBelow(evaluations, 40) > 2
            /\ total < 30 * n => Len(gaps) >= 2 /\ gaps[1] = "CRITICAL" /\ gaps[2] = "MAJOR"

\* Role finance, scores 10, 20, 25, 30 (mean 21.25): all four gaps apply and
\* the three of highest priority are listed.
C28_Witness ==
    /\ Reported
    /\ result.args[2] = "finance"
    /\ result.args[1] = <<Evaluation(10), Evaluation(20), Evaluation(25), Evaluation(30)>>
    /\ result.value[1].critical_gaps = <<"CRITICAL", "MAJOR", "PATTERN">>

\* C29: for finance, operations and data_analytics the role-tagged gap
\* follows the minimum threshold of the hiring decision (75, 70, 80): it is
\* listed whenever meets_threshold is false and fewer than 3 gaps of higher
\* priority apply, and never when meets_threshold is true.
C29_RoleGapAtHiringThreshold ==
    (Reported /\ result.args[2] \in {"finance", "operations", "data_analytics"}) =>
        LET gaps == result.value[1].critical_gaps
            meets == result.value[1].hiring_decision.meets_threshold
            higher == Cardinality({ k \in 1..Len(gaps) : GapPriority(gaps[k]) < 4 })
            role_gap == \E k \in 1..Len(gaps) : GapPriority(gaps[k]) = 4
        IN  /\ (~meets /\ higher < 3) => role_gap
            /\ meets => ~role_gap

(***************************************************************************)
(* The sessions get_interview_history returns.                             *)
(***************************************************************************)
\* C30: get_interview_history(limit) returns at most limit sessions, the
\* last completed ones in the order of completion; limit 0 returns none.
C30_HistoryAtMostLimit ==
    result.op = "get_interview_history" =>
        LET limit == result.args[1]
            sessions == result.value[1]
            n == Len(interview_history)
            kept == IF limit < n THEN limit ELSE n
        IN  /\ Len(sessions) <= limit
            /\ sessions = SubSeq(interview_history, n - kept + 1, n)

(***************************************************************************)
(* The difficulties of the questions fixed at session start.               *)
(***************************************************************************)
\* The candidates of a difficulty a start of the role can draw on: the ids
\* the generator can synthesize and has not used, and the stored records.
Candidates(role, difficulty) ==
    Cardinality({ q[1].id : q \in { g \in GenerateSingleQuestion(RoleFocus(role), difficulty,
                                                                 hash_seed) :
                                      Len(g) = 1 /\ g[1].id \notin used_questions } })
        + CountOf(questions, difficulty)

\* C31: the questions fixed at session start hold of each difficulty at most
\* its bucket quota (for count 6: 2 basic, 2 intermediate, 2 advanced)
\* unless another difficulty has fewer candidates than its quota; with
\* enough candidates at every difficulty each bucket is exactly at quota.
C31_SelectionWithinQuotas ==
    [][ \A role \in Roles, count \in 0..SelectMaxCount, interview_id \in InterviewIds :
            StartInterview(role, count, interview_id) =>
                LET selected == current_interview'[1].questions
                    Quota(k) == TargetDistribution(count, Difficulties[k])
                    Lacks(k) == Candidates(role, Difficulties[k]) < Quota(k)
                IN  \A k \in 1..3 :
                        /\ CountOf(selected, Difficulties[k]) > Quota(k)
                              => \E other \in (1..3) \ {k} : Lacks(other)
                        /\ (\A each \in 1..3 : ~Lacks(each))
                              => CountOf(selected, Difficulties[k]) = Quota(k) ]_vars

(***************************************************************************)
(* The advance of a session.                                               *)
(***************************************************************************)
\* C32: on a live in_progress session with an unanswered question every
\* submit_answer, whatever the evaluation, moves the cursor by one; before
\* the last question it returns continue with the question at the new
\* cursor, on the last question it returns completed, appends the session
\* to the history and clears the live slot.
C32_SubmitAlwaysAdvances ==
    [][ \A evaluation \in Evaluations :
          ( /\ Live
            /\ current_interview[1].status = "in_progress"
            /\ current_interview[1].current_question_index
                  < Len(current_interview[1].questions)
            /\ SubmitAnswer(evaluation) ) =>
              LET session == current_interview[1]
                  cursor == session.current_question_index + 1
              IN  IF cursor < Len(session.questions)
                  THEN /\ result'.status = "continue"
                       /\ Len(current_interview') = 1
                       /\ current_interview'[1].current_question_index = cursor
                       /\ result'.question = <<session.questions[cursor + 1]>>
                  ELSE /\ result'.status = "completed"
                       /\ current_interview' = <<>>
                       /\ Len(interview_history') = Len(interview_history) + 1
                       /\ interview_history'[Len(interview_history')].interview_id
                             = session.interview_id ]_vars

(***************************************************************************)
(* The hiring decision and the overall_score of one report.                *)
(***************************************************************************)
\* C33: when the override does not fire, the decision agrees with the
\* overall_score the report shows (the mean rounded to one decimal):
\* overall_score >= 85 is STRONG HIRE, overall_score >= the role threshold
\* is at least CONDITIONAL HIRE, overall_score >= 50 is not REJECT.
C33_DecisionOfShownScore ==
    (Reported /\ ~MostBelow30(result.args[1])) =>
        LET overall_score == result.value[1].overall_score
            decision == result.value[1].hiring_decision.decision
        IN  /\ overall_score >= 850 => decision = "STRONG HIRE"
            /\ overall_score >= 10 * StatedThreshold(result.args[2])
                  => decision \in {"STRONG HIRE", "CONDITIONAL HIRE"}
            /\ overall_score >= 500 => decision # "REJECT"

(***************************************************************************)
(* What an answer records in the question store.                           *)
(***************************************************************************)
\* The number of records of the store with the id.
RecordsOf(question_id) ==
    Cardinality({ i \in 1..Len(questions) : questions[i].id = question_id })

\* A submit_answer that returns without error changes, when the store holds
\* the id of the current question, the first record of that id alone (one
\* more use, the score of the evaluation appended to its history), and no
\* record otherwise.
SubmitRecordsCurrentOnly ==
    \A evaluation \in Evaluations :
        ( /\ result'.op = "submit_answer" /\ ~result'.raised /\ result'.error = ""
          /\ Len(get_current_question(current_interview)) = 1
          /\ SubmitAnswer(evaluation) ) =>
            LET id == get_current_question(current_interview)[1].id
                i == FirstIndexOf(questions, id)
            IN  /\ Len(questions') = Len(questions)
                /\ \A j \in 1..Len(questions) : j # i => questions'[j] = questions[j]
                /\ i # 0 =>
                      /\ questions'[i].usage_count = questions[i].usage_count + 1
                      /\ questions'[i].performance_history
                            = Append(questions[i].performance_history,
                                     [score |-> evaluation.score.value])

\* The questions of a completed session that are stored under an id of
\* their own have been used once since the start that stored them, with the
\* score of their evaluation.
CompletedUsedOnce ==
    \A h \in 1..Len(interview_history) :
        LET session == interview_history[h]
        IN  IdsDistinct(session.questions) =>
                \A k \in 1..Len(session.questions) :
                    RecordsOf(session.questions[k].id) = 1 =>
                        LET record == questions[FirstIndexOf(questions, session.questions[k].id)]
                        IN  /\ record.usage_count = 1
                            /\ record.performance_history
                                  = <<[score |-> session.evaluations[k].score.value]>>

C35_RejectBelowThreshold ==
    (Reported /\ \A k \in 1..Len(result.args[1]) : InRange(result.args[1][k].score)) =>
        LET evaluations == result.args[1]
            decision == result.value[1].hiring_decision
            rule == RuleDecision(AvgScore(evaluations), HiringThreshold(result.args[2]))
        IN  /\ decision.decision = "REJECT" => ~decision.meets_threshold
            /\ MostBelow30(evaluations) =>
                  /\ ScoreSum(evaluations) < 70 * Len(evaluations)
                  /\ rule.decision \in {"NO HIRE - TRAINING REQUIRED", "REJECT"}

\* Scores 29, 29, 100 (mean 52.67): the override turns NO HIRE - TRAINING
\* REQUIRED into REJECT, below the threshold.
C35_Witness ==
    /\ Reported
    /\ result.args[1] = <<Evaluation(29), Evaluation(29), Evaluation(100)>>
    /\ result.value[1].hiring_decision.decision = "REJECT"
    /\ ~result.value[1].hiring_decision.meets_threshold
    /\ RuleDecision(AvgScore(result.args[1]), HiringThreshold(result.args[2])).decision
          = "NO HIRE - TRAINING REQUIRED"

(***************************************************************************)
(* The session a start_interview finds in the live slot.                   *)
(***************************************************************************)
\* C36: a session is never lost: a start_interview made while a session is
\* in_progress or paused leaves that session, with its responses and
\* evaluations, in interview_history.
C36_StartKeepsLiveSession ==
    [][(/\ calls' = calls + 1
        /\ Len(current_interview) = 1
        /\ current_interview[1].status \in {"in_progress", "paused"}
        /\ Len(current_interview[1].responses) > 0) =>
            \E h \in 1..Len(interview_history') :
                /\ interview_history'[h].interview_id = current_interview[1].interview_id
                /\ interview_history'[h].responses = current_interview[1].responses
                /\ interview_history'[h].evaluations = current_interview[1].evaluations]_vars

(***************************************************************************)
(* The entries of interview_history.                                       *)
(***************************************************************************)
\* A session as _complete_interview is to archive it.
ArchivedWhole(session) ==
    /\ session.status = "completed"
    /\ Len(session.end_time) = 1
    /\ Len(session.questions) > 0
    /\ Len(session.evaluations) = Len(session.questions)
    /\ Len(session.responses) = Len(session.questions)
    /\ session.current_question_index = Len(session.questions)

\* C37: every entry of interview_history has status completed, an end_time,
\* at least one question and len(evaluations) = len(responses) = cursor =
\* len(questions); later operations leave the entries of the history as
\* they are and in their places.
C37_HistoryEntriesWholeAndKept ==
    [][/\ \A h \in 1..Len(interview_history') : ArchivedWhole(interview_history'[h])
       /\ Len(interview_history') >= Len(interview_history)
       /\ \A h \in 1..Len(interview_history) :
             interview_history'[h] = interview_history[h]]_vars

\* Two sessions are archived, the first of two questions.
C37_Witness ==
    /\ Len(interview_history) = 2
    /\ Len(interview_history[1].questions) = 2
    /\ interview_history[1] # interview_history[2]

(***************************************************************************)
(* The pool start_interview hands to the balancing.                        *)
(***************************************************************************)
\* all_questions of _select_interview_questions: every pool it can hand to
\* _balance_question_selection.
SelectionPools(qs, role, count, used, seed) ==
    LET stored_questions == get_best_questions(qs, PyStr(role), PyInt(count), DefaultBestCount)
    IN  IF Len(stored_questions) < count
        THEN { stored_questions \o g.questions :
                 g \in generate_interview_questions(
                           role, count - Len(stored_questions), used, seed) }
        ELSE { Take(stored_questions, count) }

\* C38: the pool _select_interview_questions hands to the balancing has at
\* most count questions, so the balancing returns it at its first line and
\* the selection of start_interview is the pool, in pool order.
C38_PoolWithinCount ==
    [][ \A role \in Roles, count \in 0..SelectMaxCount, interview_id \in InterviewIds :
            StartInterview(role, count, interview_id) =>
                LET pools == SelectionPools(questions, role, count, used_questions, hash_seed)
                IN  /\ \A pool \in pools :
                          /\ Len(pool) <= count
                          /\ balance_question_selection(pool, count) = pool
                    /\ current_interview'[1].questions \in pools ]_vars

\* A start selected three questions of three difficulties, basic first.
C38_Witness ==
    /\ Live
    /\ result.op = "start_interview"
    /\ Len(current_interview[1].questions) = 3
    /\ current_interview[1].questions[1].difficulty = "basic"
    /\ current_interview[1].questions[2].difficulty = "intermediate"
    /\ current_interview[1].questions[3].difficulty = "advanced"

(***************************************************************************)
(* The ids a question generator has used.                                  *)
(***************************************************************************)
\* The ids of the questions of a list.
IdsOf(qs) == { qs[k].id : k \in 1..Len(qs) }

\* The ids the generator can still return for a role and a difficulty.
Synthesizable(role, difficulty, used) ==
    { q[1].id : q \in { g \in GenerateSingleQuestion(RoleFocus(role), difficulty, hash_seed) :
                          Len(g) = 1 /\ g[1].id \notin used } }

\* C39: a generator never returns the same id twice, within a call or across
\* calls: the questions a start gets from it have ids distinct from each
\* other and from every id used before, these ids are used afterwards, the
\* used ids only grow, and what it can still synthesize only shrinks.
C39_GeneratedIdsNeverRepeat ==
    [][ \A role \in Roles, count \in 0..SelectMaxCount, interview_id \in InterviewIds :
            StartInterview(role, count, interview_id) =>
                LET stored_questions == get_best_questions(questions, PyStr(role), PyInt(count),
                                                           DefaultBestCount)
                    selected == current_interview'[1].questions
                    generated == SubSeq(selected, Len(stored_questions) + 1, Len(selected))
                IN  /\ used_questions \subseteq used_questions'
                    /\ \A other \in Roles, k \in 1..3 :
                          Synthesizable(other, Difficulties[k], used_questions')
                              \subseteq Synthesizable(other, Difficulties[k], used_questions)
                    /\ Len(stored_questions) < count =>
                          /\ IdsDistinct(generated)
                          /\ IdsOf(generated) \cap used_questions = {}
                          /\ IdsOf(generated) \subseteq used_questions' ]_vars

\* A start after ids were used: it got two questions from the generator and
\* more ids are used than it got.
C39_Witness ==
    /\ Live
    /\ result.op = "start_interview"
    /\ Len(current_interview[1].questions) = 2
    /\ IdsOf(current_interview[1].questions) \subseteq used_questions
    /\ Cardinality(used_questions) > 2
    /\ \E q \in SeqElems(questions) : q.id \in used_questions
                                         /\ q.id \notin IdsOf(current_interview[1].questions)

====
